---- MODULE Spec2Model ----
(***************************************************************************)
(* MergeTask (src/Storages/MergeTree/MergeTask.cpp): the staged part merge *)
(* of the MergeTree engine with the vector-index row-id remapper.          *)
(*                                                                         *)
(* Spec       the driver: MergeTask::execute() stepping the three stages   *)
(*            and their substeps, the blockers being set and released by   *)
(*            other threads, exceptions, the promise, the index files.     *)
(* SpecRemap  the data path of one merge: the RowSourceStream written by   *)
(*            the sorted merge and generateRowIdsMap's forward / inverted  *)
(*            row-id maps.                                                 *)
(***************************************************************************)
EXTENDS Integers, Sequences, FiniteSets, TLC

\* ------------------------------------------------------------------ bounds
\* Source parts of one merge (future_part->parts.size()).
NumParts == 2
\* Rows of one source part.
MaxPartRows == 1
\* Non-key (gathering) columns of the table.
MaxGatherCols == 1
\* Projections of the table.
MaxProjections == 1
\* Rows of one source part in SpecRemap.
MaxRemapRows == 2
\* The largest initial reservation and the largest row upper bound in
\* SpecReservation.
MaxReservation == 5
MaxUpperBound == 5

\* The gathering columns in SpecGather, and the largest setting of
\* max_insert_delayed_streams_for_parallel_write.
NumGatherCols == 3
MaxDelayedStreams == 2

\* The projections of the table in SpecProjections.
NumProjections == 2

\* The sort keys of SpecSorted run from 0 to MaxKey.
MaxKey == 1

\* The time of the merge in SpecChoose; row TTLs run up to one later.
MergeTime == 1

\* ----------------------------------------------------------- program names
Modes == {"Ordinary", "Collapsing", "Summing", "Aggregating", "Replacing",
          "Graphite", "VersionedCollapsing"}

\* UInt64 new_row_id = -1: the sentinel of a forward map, (UInt64)(-1) =
\* UINT64_MAX.  The model writes it as the source does, -1.
UINT64_MAX == -1

\* The bits of the significand of a Float64.
Mantissa == 53

\* The bits of a fraction that are multiplied in one step.
LimbBits == 16

\* RowSourcePart::MAX_PARTS (0x7F)
MAX_PARTS == 127

NoError == "none"
ErrorCodes == {"ABORTED", "DIRECTORY_ALREADY_EXISTS", "LOGICAL_ERROR",
               "BAD_ARGUMENTS", "IO_FAILURE"}

PartIds == 0 .. (NumParts - 1)

\* Sum of f[i] over a finite set of indices.
RECURSIVE SumOver(_, _)
SumOver(S, f) ==
    IF S = {} THEN 0
    ELSE LET x == CHOOSE y \in S : TRUE IN f[x] + SumOver(S \ {x}, f)

Min(a, b) == IF a <= b THEN a ELSE b

VARIABLES
    input,              \* what the task was constructed with (never changes)
    blockers,           \* merges_blocker, ttl_merges_blocker, merge_list_element->is_cancelled
    global_ctx,         \* GlobalRuntimeContext
    ctx,                \* the runtime context of the current stage
    stages_iterator,    \* MergeTask::stages_iterator, 1..3, 4 = stages.end()
    subtasks_iterator,  \* per stage: subtasks_iterator, 1..3, 4 = subtasks.end()
    pc,                 \* where the thread running execute() is
    outcome,            \* what the last execute() call returned or threw
    source_parts,       \* the mutable state of the source parts (index files, bitmaps)
    hist,               \* history variables, read by the properties only
    remap               \* SpecRemap: the data path

vars == <<input, blockers, global_ctx, ctx, stages_iterator, subtasks_iterator,
          pc, outcome, source_parts, hist, remap>>

\* ------------------------------------------------------------------ inputs
\* The settings consulted by the merge (storage settings and query settings).
DefaultSettings ==
    [ enable_vertical_merge_algorithm                  |-> 1,
      vertical_merge_algorithm_min_columns_to_activate |-> 1,
      vertical_merge_algorithm_min_rows_to_activate    |-> 1,
      allow_vertical_merges_from_compact_to_wide_parts |-> TRUE,
      enable_decouple_vector_index                     |-> TRUE,
      max_insert_delayed_streams_for_parallel_write    |-> 1,
      support_parallel_write                           |-> TRUE,
      min_rows_to_fsync_after_merge                    |-> 1 ]

\* A source part, as far as the merge reads it.  part_min_ttl: 0 = no row TTL,
\* otherwise a time; vector_index: per vector index name, the state of the
\* part's column index ("none": getColumnIndex() has no value).
Part(rows, vi, lwd, min_ttl, ttl_calculated, projs) ==
    [ rows_count         |-> rows,
      is_wide            |-> TRUE,
      vector_index       |-> vi,
      lightweight_delete |-> lwd,
      part_min_ttl       |-> min_ttl,
      all_ttl_calculated |-> ttl_calculated,
      projection_parts   |-> projs ]

\* The vector indices of the table (metadata_snapshot->getVectorIndices()).
VectorIndexNames == <<"vec_idx">>

\* A merge of NumParts wide parts.
MergeInput(rows, vi, ttl, projs, dedup, dir, cols, is_ttl_merge) ==
    [ parts          |-> [i \in 1 .. NumParts |->
                             Part(rows[i], [n \in {"vec_idx"} |-> vi[i]],
                                  FALSE, ttl, TRUE, projs)],
      mode           |-> "Ordinary",
      deduplicate    |-> dedup,
      is_ttl_merge   |-> is_ttl_merge,
      has_any_ttl    |-> TRUE,
      columns_ttl_finished |-> {},
      part_type_wide |-> TRUE,
      storage_full   |-> TRUE,
      dir_exists     |-> dir,
      gathering      |-> cols,
      projections    |-> MaxProjections,
      projection_types |-> [p \in 1 .. MaxProjections |-> "Normal"],
      vector_indices |-> VectorIndexNames,
      time_of_merge  |-> 1,
      settings       |-> DefaultSettings ]

\* The merges the driver specification runs: every part carries the same TTL
\* and the same projections; rows and vector index differ per part.
SpecInputs ==
    { MergeInput(rows, vi, ttl, projs, dedup, dir, cols, FALSE) :
        rows \in [1 .. NumParts -> 0 .. MaxPartRows],
        \* "none": the part has no column index of that name; "PENDING": it
        \* has one whose state is not VectorIndexState::BUILT
        vi \in [1 .. NumParts -> {"none", "PENDING", "BUILT"}],
        ttl \in {0, 1},
        projs \in {{}, 1 .. MaxProjections},
        dedup \in BOOLEAN,
        dir \in BOOLEAN,
        cols \in 0 .. MaxGatherCols }

\* The merges of a TTL merge type the driver specification runs: parts without
\* vector index and without projections.
TTLMergeInputs ==
    { MergeInput(rows, [i \in 1 .. NumParts |-> "none"], ttl, {}, FALSE, dir, cols, TRUE) :
        rows \in [1 .. NumParts -> 0 .. MaxPartRows],
        ttl \in {0, 1},
        dir \in BOOLEAN,
        cols \in 0 .. MaxGatherCols }

\* Sum of f[lo] .. f[hi], by halves.
RECURSIVE SumRange(_, _, _)
SumRange(f, lo, hi) ==
    IF lo > hi THEN 0
    ELSE IF lo = hi THEN f[lo]
    ELSE LET mid == (lo + hi) \div 2
         IN SumRange(f, lo, mid) + SumRange(f, mid + 1, hi)

TotalRows(inp) ==
    SumRange([i \in DOMAIN inp.parts |-> inp.parts[i].rows_count], 1, Len(inp.parts))


\* -------------------------------------------------------------- initial state
InitGlobalCtx ==
    [ new_data_part           |-> [built |-> FALSE, rows_count |-> 0, finalized |-> FALSE,
                                   expired |-> FALSE, expired_columns |-> {},
                                   projection_parts |-> {},
                                   index_checksums |-> {}, index_loaded |-> FALSE],
      txn                     |-> "none",        \* none | begun | precommitted
      temporary_directory_lock |-> FALSE,
      chosen_merge_algorithm  |-> "Undecided",
      gathering_column_names  |-> 0,             \* the gathering columns, 1 .. n
      merging_columns         |-> {},            \* the columns handed to global_ctx->to
      gathering_columns       |-> {},            \* the columns gathered one by one
      gathering_column_names_size |-> 0,
      merging_executor        |-> 0,             \* rows the merged pipeline still delivers
      has_executor            |-> FALSE,
      to                      |-> FALSE,         \* the MergedBlockOutputStream exists
      rows_written            |-> 0,
      rows_emitted            |-> 0,             \* skip = 0 records the transform has written
      rows_sources_count      |-> 0,             \* records in the rows sources file
      input_rows_filtered     |-> 0,             \* rows the sources leave out (deleted rows)
      truncated               |-> FALSE,         \* the executor was reset before its end
      checksums_gathered_columns |-> {},
      finished_streams        |-> <<>>,          \* column writers finish()ed, in order
      all_parts_have_vector_index |-> {},
      can_be_decouple         |-> FALSE,
      only_one_vpart_merged   |-> FALSE,
      first_part_with_data    |-> -1,
      inverted_row_ids_map_file_path |-> FALSE,  \* the path is not empty
      row_ids_maps_written    |-> FALSE,
      row_ids_map_bufs        |-> {},            \* sources whose forward map file was opened
      rows_sources_tmp        |-> [exists |-> FALSE, keep |-> FALSE],
      promise                 |-> "unset" ]

\* A runtime context: one record for the three context types; a field a
\* context type does not have keeps its default.
EmptyCtx(kind) ==
    [ kind                          |-> kind,
      need_remove_expired_values    |-> FALSE,
      force_ttl                     |-> FALSE,
      is_cancelled_need_remove      |-> FALSE,   \* need_remove captured by ctx->is_cancelled
      rows_sources_file             |-> FALSE,   \* holds the temporary file
      rows_sources_write_buf        |-> FALSE,
      need_sync                     |-> FALSE,
      column_num_for_vertical_merge |-> 0,
      vertical_merge_one_column_state |-> "NEED_PREPARE",
      column_elems_written          |-> 0,
      rows_sources_read_pos         |-> 0,        \* records read from rows_sources_read_buf
      executor                      |-> 0,        \* rows the column executor still delivers
      column_to                     |-> 0,        \* the column the open column writer writes
      delayed_streams               |-> <<>>,
      max_delayed_streams           |-> 0,
      tasks_for_projections         |-> <<>>,
      projections_iterator          |-> 1 ]

InitBlockers ==
    [ merges_blocker |-> FALSE, ttl_merges_blocker |-> FALSE, is_cancelled |-> FALSE ]

InitHist ==
    [ observed_cancel    |-> FALSE,   \* a checkpoint saw the merges blocker / cancel flag set
      calls_since_cancel |-> -1,      \* execute() calls since a cancellation set during gathering
      last_stage         |-> 0,       \* the stage the last execute() call ran
      stage_returned     |-> [s \in 1 .. 3 |-> "none"],
      installed          |-> <<"Horizontal">>, \* the contexts installed, in order
      promise_sets       |-> 0,
      pulled             |-> 0,       \* blocks the last execute() call pulled from an executor
      cancel_after_data  |-> FALSE,   \* a cancellation first set after the last data checkpoint
      moved_at_failure   |-> FALSE ]

InitRemap == [ pc |-> "off" ]

InitCommon ==
    /\ blockers = InitBlockers
    /\ global_ctx = InitGlobalCtx
    /\ ctx = EmptyCtx("Horizontal")
    /\ stages_iterator = 1
    /\ subtasks_iterator = [s \in 1 .. 3 |-> 1]
    /\ pc = "idle"
    /\ outcome = [ret |-> "none", error |-> NoError]
    /\ hist = InitHist

Init ==
    /\ \/ input \in SpecInputs
       \/ input \in TTLMergeInputs
    /\ InitCommon
    /\ source_parts = [i \in 1 .. NumParts |->
                          [index_files |-> [n \in {"vec_idx"} |->
                                               IF input.parts[i].vector_index[n] = "BUILT"
                                               THEN "source" ELSE "none"],
                           bitmap_pushed |-> FALSE]]
    /\ remap = InitRemap

\* ------------------------------------------------------ results of a substep
\* What one substep call did: the exception it threw (or NoError), whether it
\* asked to be called again, where the thread is afterwards, the state it
\* left behind, and the blocks it pulled.
Result(error, again, at, c, g, sp, h) ==
    [error |-> error, again |-> again, pc |-> at, ctx |-> c, global_ctx |-> g,
     source_parts |-> sp, hist |-> h, pulled |-> 0]

\* pull(block) returned a block.
WithPull(r) == [r EXCEPT !.pulled = @ + 1]

Ok(again, c, g) == Result(NoError, again, "idle", c, g, source_parts, hist)
Raise(code, c, g) == Result(code, FALSE, "idle", c, g, source_parts, hist)

\* --------------------------------------------------------------- blockers
\* merges_blocker->isCancelled() || merge_list_element_ptr->is_cancelled
MergesCancelled == blockers.merges_blocker \/ blockers.is_cancelled

\* A closure that leaves the merges blocker out.
IsCancelledIgnoringBlocker ==
    \/ (ctx.is_cancelled_need_remove /\ blockers.ttl_merges_blocker)
    \/ blockers.is_cancelled

\* A closure that tests the TTL merges blocker for every merge.
IsCancelledByAnyTTLBlock ==
    \/ blockers.merges_blocker
    \/ blockers.ttl_merges_blocker
    \/ blockers.is_cancelled

\* ctx->is_cancelled, the closure prepare() builds
IsCancelled ==
    \/ blockers.merges_blocker
    \/ (ctx.is_cancelled_need_remove /\ blockers.ttl_merges_blocker)
    \/ blockers.is_cancelled

\* ---------------------------------------------------------------- prepare
Max(a, b) == IF a >= b THEN a ELSE b

SetMin(S) == CHOOSE x \in S : \A y \in S : x <= y

\* new_data_part->ttl_infos.update(part->ttl_infos) over all parts: part_min_ttl
PartMinTTL(inp) ==
    LET S == {inp.parts[i].part_min_ttl : i \in DOMAIN inp.parts} \ {0}
    IN IF S = {} THEN 0 ELSE SetMin(S)

\* hasAnyTTL() && !part->checkAllTTLCalculated() for some part
ForceTTL(inp) ==
    \E i \in DOMAIN inp.parts : inp.has_any_ttl /\ ~inp.parts[i].all_ttl_calculated

\* A TTL decision that does not look at the TTL merges blocker.
NeedRemoveIgnoringBlocker(inp, ttl_blocker_cancelled) ==
    ForceTTL(inp) \/ (PartMinTTL(inp) # 0 /\ PartMinTTL(inp) <= inp.time_of_merge)

\* ctx->need_remove_expired_values at the end of prepare()
NeedRemoveExpiredValues(inp, ttl_blocker_cancelled) ==
    LET need == ForceTTL(inp)
                \/ (PartMinTTL(inp) # 0 /\ PartMinTTL(inp) <= inp.time_of_merge)
    IN need /\ ~ttl_blocker_cancelled

\* A choice that looks at the deduplicate flag only.
ChooseByDeduplicate(inp, need_remove_expired_values, gathering_columns_size) ==
    IF inp.deduplicate THEN "Horizontal" ELSE "Vertical"

chooseMergeAlgorithm(inp, need_remove_expired_values, gathering_columns_size) ==
    LET is_supported_storage ==
            inp.mode \in {"Ordinary", "Collapsing", "Replacing", "VersionedCollapsing"}
        enough_ordinary_cols ==
            gathering_columns_size >= inp.settings.vertical_merge_algorithm_min_columns_to_activate
        enough_total_rows ==
            TotalRows(inp) >= inp.settings.vertical_merge_algorithm_min_rows_to_activate
        no_parts_overflow == Len(inp.parts) <= MAX_PARTS
    IN  IF inp.deduplicate THEN "Horizontal"
        ELSE IF inp.settings.enable_vertical_merge_algorithm = 0 THEN "Horizontal"
        ELSE IF need_remove_expired_values THEN "Horizontal"
        ELSE IF ~inp.part_type_wide THEN "Horizontal"
        ELSE IF ~inp.storage_full THEN "Horizontal"
        ELSE IF ~inp.settings.allow_vertical_merges_from_compact_to_wide_parts
                /\ \E i \in DOMAIN inp.parts : ~inp.parts[i].is_wide THEN "Horizontal"
        ELSE IF is_supported_storage /\ enough_total_rows /\ enough_ordinary_cols
                /\ no_parts_overflow THEN "Vertical"
        ELSE "Horizontal"

\* The loop over the vector indices that decides whether the old indices can
\* be reused: the state after index number k .. Len.
RECURSIVE DecoupleLoop(_, _, _)
DecoupleLoop(inp, k, acc) ==
    IF k > Len(inp.vector_indices) THEN acc
    ELSE
    LET name == inp.vector_indices[k]
        num_parts == Len(inp.parts)
        with_index == {i \in 0 .. (num_parts - 1) :
                          inp.parts[i + 1].vector_index[name] # "none"}
        num_parts_with_vector_index ==
            Cardinality({i \in with_index : inp.parts[i + 1].vector_index[name] = "BUILT"})
        empty_parts_count ==
            Cardinality({i \in with_index : inp.parts[i + 1].rows_count = 0})
        with_data == {i \in with_index : inp.parts[i + 1].rows_count # 0}
        eligible == num_parts > 0
                    /\ num_parts_with_vector_index + empty_parts_count = num_parts
    IN DecoupleLoop(inp, k + 1,
         [ first_part_with_data |->
               IF acc.first_part_with_data = -1 /\ with_data # {}
               THEN SetMin(with_data) ELSE acc.first_part_with_data,
           max_part_with_index |-> Max(acc.max_part_with_index, num_parts_with_vector_index),
           all_parts_have_vector_index |->
               IF eligible THEN acc.all_parts_have_vector_index \cup {name}
               ELSE acc.all_parts_have_vector_index,
           can_be_decouple |-> acc.can_be_decouple \/ eligible ])

DecoupleCheck(inp) ==
    IF inp.settings.enable_decouple_vector_index
    THEN DecoupleLoop(inp, 1, [first_part_with_data |-> -1, max_part_with_index |-> 0,
                               all_parts_have_vector_index |-> {},
                               can_be_decouple |-> FALSE])
    ELSE [first_part_with_data |-> -1, max_part_with_index |-> 0,
          all_parts_have_vector_index |-> {}, can_be_decouple |-> FALSE]

\* future_part->parts[first_part_with_data]->hasLightweightDelete(): with
\* first_part_with_data = -1 the read is out of the vector's bounds, and any
\* value may come back.
HasLightweightDeleteAt(inp, first_part_with_data) ==
    IF first_part_with_data \in 0 .. (Len(inp.parts) - 1)
    THEN {inp.parts[first_part_with_data + 1].lightweight_delete}
    ELSE BOOLEAN

\* The rows of the parts that carry a lightweight delete mask: the sources
\* leave out the rows the mask hides and count them in input_rows_filtered.
LwdRows(inp) ==
    SumOver(1 .. NumParts,
            [i \in 1 .. NumParts |->
                IF inp.parts[i].lightweight_delete THEN inp.parts[i].rows_count ELSE 0])

\* The rows the merged pipeline can deliver to the writer: the sorted merge
\* transform of the mode, then DISTINCT, then the TTL transform.
PossibleOutputRows(inp, need_remove_expired_values, input_rows_filtered) ==
    LET total == TotalRows(inp) - input_rows_filtered
    IN  IF total = 0 THEN {0}
        ELSE IF need_remove_expired_values \/ inp.mode \in {"Collapsing", "VersionedCollapsing"}
             THEN 0 .. total
        ELSE IF inp.deduplicate \/ inp.mode # "Ordinary" THEN 1 .. total
        ELSE {total}

\* needSyncPart(sum_input_rows_upper_bound, ...)
needSyncPart(inp) ==
    /\ inp.settings.min_rows_to_fsync_after_merge # 0
    /\ TotalRows(inp) >= inp.settings.min_rows_to_fsync_after_merge

\* Poco::TemporaryFile's destructor: the file is removed unless keep() was called.
DropTemporaryFile(g) ==
    IF g.rows_sources_tmp.keep THEN g
    ELSE [g EXCEPT !.rows_sources_tmp.exists = FALSE]

\* The columns of the table: column 0 is the key column, which
\* extractMergingAndGatheringColumns puts into the merging columns; the
\* columns 1 .. inp.gathering are the ones it puts into the gathering columns.
\* A Horizontal merge moves every column to the merging columns.
ColumnsOf(inp, alg) ==
    IF alg = "Vertical"
    THEN [merging |-> {0}, gathering |-> 1 .. inp.gathering]
    ELSE [merging |-> 0 .. inp.gathering, gathering |-> {}]

\* A prepare() that skips the expired columns of every merge.
SkipExpiredAlways(inp, need_remove_expired_values, cols) ==
    [ expired_columns |-> inp.columns_ttl_finished,
      merging   |-> cols.merging \ inp.columns_ttl_finished,
      gathering |-> cols.gathering \ inp.columns_ttl_finished ]

\* if (!ctx->need_remove_expired_values): every column whose TTL is finished
\* goes to expired_columns and leaves the merging and the gathering columns.
SkipExpiredColumns(inp, need_remove_expired_values, cols) ==
    IF need_remove_expired_values
    THEN [ expired_columns |-> {}, merging |-> cols.merging, gathering |-> cols.gathering ]
    ELSE [ expired_columns |-> inp.columns_ttl_finished,
           merging   |-> cols.merging \ inp.columns_ttl_finished,
           gathering |-> cols.gathering \ inp.columns_ttl_finished ]

\* A prepare() that takes a single VPart as it is, deleted rows or not.
OnlyOneVPartIgnoringDelete(dc, lwd) == dc.can_be_decouple /\ dc.max_part_with_index = 1

\* can_be_decouple && max_part_with_index == 1 && !hasLightweightDelete():
\* lwd is what hasLightweightDelete() returned.
OnlyOneVPartMerged(dc, lwd) ==
    dc.can_be_decouple /\ dc.max_part_with_index = 1 /\ ~lwd

\* A prepare() that runs a TTL merge as a normal merge.
TTLMergeNotChecked == FALSE

\* isTTLMergeType(future_part->merge_type) && ttl_merges_blocker->isCancelled()
TTLMergeCancelled == input.is_ttl_merge /\ blockers.ttl_merges_blocker

\* A prepare() that writes into whatever directory it finds.
DirectoryNotChecked == FALSE

\* if (data_part_storage->exists())
DirectoryExists == input.dir_exists

prepare ==
    IF MergesCancelled THEN {Raise("ABORTED", ctx, global_ctx)}
    ELSE IF TTLMergeCancelled
    THEN {Raise("ABORTED", ctx, global_ctx)}
    ELSE
    LET built == [global_ctx EXCEPT !.new_data_part.built = TRUE]
        need_remove == NeedRemoveExpiredValues(input, blockers.ttl_merges_blocker)
        alg == chooseMergeAlgorithm(input, need_remove, input.gathering)
        dc == DecoupleCheck(input)
        columns == SkipExpiredColumns(input, need_remove, ColumnsOf(input, alg))
    IN  IF DirectoryExists THEN {Raise("DIRECTORY_ALREADY_EXISTS", ctx, built)}
        ELSE
        UNION {
        { LET only_one == OnlyOneVPartMerged(dc, lwd)
              can == dc.can_be_decouple /\ ~only_one
              file == (alg = "Vertical") \/ can
          IN Ok(FALSE,
                [ctx EXCEPT !.need_remove_expired_values = need_remove,
                            !.force_ttl = ForceTTL(input),
                            !.is_cancelled_need_remove = need_remove,
                            !.rows_sources_file = file,
                            !.rows_sources_write_buf = file],
                [built EXCEPT !.txn = "begun",
                              !.temporary_directory_lock = TRUE,
                              !.chosen_merge_algorithm = alg,
                              !.gathering_column_names = Cardinality(columns.gathering),
                              !.merging_columns = columns.merging,
                              !.gathering_columns = columns.gathering,
                              !.new_data_part.expired_columns = columns.expired_columns,
                              !.all_parts_have_vector_index = dc.all_parts_have_vector_index,
                              !.can_be_decouple = can,
                              !.only_one_vpart_merged = only_one,
                              !.first_part_with_data = dc.first_part_with_data,
                              !.inverted_row_ids_map_file_path = can,
                              !.rows_sources_tmp = [exists |-> file, keep |-> can],
                              !.input_rows_filtered = filtered,
                              !.merging_executor = deliver,
                              !.has_executor = TRUE,
                              !.to = TRUE,
                              !.rows_written = 0])
          : lwd \in HasLightweightDeleteAt(input, dc.first_part_with_data),
            deliver \in PossibleOutputRows(input, need_remove, filtered) }
          : filtered \in 0 .. LwdRows(input) }

\* ------------------------------------------------------ the rows sources file
CollapsingModes == {"Collapsing", "Replacing", "VersionedCollapsing"}

\* The transforms createMergedStream hands ctx->rows_sources_write_buf to.
WritesRowsSources(mode) == mode \in {"Ordinary"} \cup CollapsingModes

\* The records the sorted merge transform can have written to the rows sources
\* file when the executor is reset: one per row it consumed, all rows of the
\* sources when the executor reached its end, at least the rows the writer got
\* when it did not; none without a write buffer or in a transform that was
\* not given the buffer.
RowsSourcesCounts(inp, c, g) ==
    IF ~c.rows_sources_write_buf \/ ~WritesRowsSources(inp.mode) THEN {0}
    ELSE IF g.merging_executor > 0
    THEN g.rows_written .. (TotalRows(inp) - g.input_rows_filtered)
    ELSE {TotalRows(inp) - g.input_rows_filtered}

\* ------------------------------------------------------------- executeImpl
\* The first half, up to the pull: if (!ctx->is_cancelled() && pull(block)).
\* When the test fails the executor is reset and the thread goes on to the
\* re-check of the blockers.
executeImplPull ==
    IF ~IsCancelled /\ global_ctx.merging_executor > 0
    THEN { WithPull(Ok(TRUE, ctx, [global_ctx EXCEPT !.rows_written = @ + n,
                                                     !.merging_executor = @ - n]))
             : n \in 1 .. global_ctx.merging_executor }
         \cup
         { WithPull(Raise("IO_FAILURE", ctx,
                          [global_ctx EXCEPT !.rows_written = @ + n,
                                             !.merging_executor = @ - n]))
             : n \in 1 .. global_ctx.merging_executor }
    ELSE { Result(NoError, FALSE, "recheck", ctx,
                  [global_ctx EXCEPT !.has_executor = FALSE,
                                     !.truncated = global_ctx.merging_executor > 0,
                                     !.rows_emitted = emitted,
                                     !.rows_sources_count = count],
                  source_parts,
                  [hist EXCEPT !.observed_cancel = @ \/ MergesCancelled])
             : emitted \in IF global_ctx.chosen_merge_algorithm = "Vertical"
                           THEN global_ctx.rows_written ..
                                (global_ctx.rows_written + global_ctx.merging_executor)
                           ELSE {global_ctx.rows_written},
               count \in RowsSourcesCounts(input, ctx, global_ctx) }

\* The second half: the blockers are read again, after the executor is gone.
executeImplRecheck ==
    IF MergesCancelled THEN {Raise("ABORTED", ctx, global_ctx)}
    ELSE IF ctx.need_remove_expired_values /\ blockers.ttl_merges_blocker
    THEN {Raise("ABORTED", ctx, global_ctx)}
    ELSE {Ok(FALSE, [ctx EXCEPT !.need_sync = needSyncPart(input)], global_ctx)}

\* -------------------------------------------------------- generateRowIdsMap

NonEmptyParts(inp) == {i \in PartIds : inp.parts[i + 1].rows_count # 0}

\* The sources that get delete-row ids pushed into their bitmaps (i > 0 in the
\* collapsing branch): sources with a row that received no new row id.
SourcesWithDroppedRows(inp, g) ==
    IF inp.mode \in CollapsingModes
    THEN {D \in SUBSET NonEmptyParts(inp) :
             D # {} => (g.rows_written < TotalRows(inp) \/ g.truncated)}
    ELSE {{}}

\* updateBitMap(segment_id, deleteRowIds) for every source in D
PushBitmaps(sp, D) ==
    [i \in 1 .. NumParts |->
        IF (i - 1) \in D THEN [sp[i] EXCEPT !.bitmap_pushed = TRUE] ELSE sp[i]]

\* The forward map files opened for writing after `opened` rounds of the loop
\* over row_ids_map_files, which has a path for every source part.
RowIdsMapFiles(opened) == {i \in PartIds : i < opened}

\* The driver's view of generateRowIdsMap: the files it writes and the side
\* effects on the source parts; RowIdsMaps below computes the maps themselves.
generateRowIdsMap ==
    IF ~global_ctx.inverted_row_ids_map_file_path THEN {Ok(FALSE, ctx, global_ctx)}
    ELSE
    LET horizontal == global_ctx.chosen_merge_algorithm = "Horizontal"
        c1 == IF horizontal
              THEN [ctx EXCEPT !.rows_sources_file = FALSE, !.rows_sources_write_buf = FALSE]
              ELSE ctx
        g1 == IF horizontal THEN DropTemporaryFile(global_ctx) ELSE global_ctx
    IN  { Result(NoError, FALSE, "idle", c1,
                 [g1 EXCEPT !.row_ids_maps_written = TRUE,
                            !.row_ids_map_bufs = RowIdsMapFiles(NumParts)],
                 PushBitmaps(source_parts, D), hist)
            : D \in SourcesWithDroppedRows(input, global_ctx) }
        \cup
        \* catch (...): the buffers are released and the exception goes on
        { Result("IO_FAILURE", FALSE, "idle", ctx,
                 [global_ctx EXCEPT !.row_ids_map_bufs = RowIdsMapFiles(opened)],
                 PushBitmaps(source_parts, D), hist)
            : D \in SourcesWithDroppedRows(input, global_ctx), opened \in {0, NumParts} }

\* ------------------------------------------------------------ vertical stage
\* The test before the gathering columns are merged.
RowsSourcesMismatch(g, sum_input_rows_exact) ==
    /\ (g.rows_sources_count > 0 \/ NumParts > 1)
    /\ sum_input_rows_exact # g.rows_sources_count + g.input_rows_filtered

prepareVerticalMergeForAllColumns ==
    IF global_ctx.chosen_merge_algorithm # "Vertical" THEN {Ok(FALSE, ctx, global_ctx)}
    ELSE
    LET max_delayed_streams ==
            IF input.settings.support_parallel_write
            THEN input.settings.max_insert_delayed_streams_for_parallel_write
            ELSE 0
        \* merge_list_element_ptr->rows_read: all rows once the executor
        \* reached its end, else what the sources had read when it was reset
        rows_read ==
            IF global_ctx.truncated
            THEN (global_ctx.rows_sources_count + global_ctx.input_rows_filtered)
                     .. TotalRows(input)
            ELSE {TotalRows(input)}
    IN  { IF RowsSourcesMismatch(global_ctx, sum_input_rows_exact)
          THEN Raise("LOGICAL_ERROR", ctx, global_ctx)
          ELSE Ok(FALSE,
                  [ctx EXCEPT !.column_num_for_vertical_merge = 0,
                              !.max_delayed_streams = max_delayed_streams],
                  [global_ctx EXCEPT !.gathering_column_names_size =
                                          global_ctx.gathering_column_names])
            : sum_input_rows_exact \in rows_read }

\* A prepare step that leaves the reader of the rows sources file where the
\* column before left it.
PrepareOneColumnWithoutSeek(c, g) ==
    [c EXCEPT !.executor = g.rows_emitted,
              !.column_to = c.column_num_for_vertical_merge + 1,
              !.column_elems_written = 0]

\* The readers of the column *it_name_and_type are opened over all parts,
\* rows_sources_read_buf->seek(0, 0), the executor and the writer of the
\* column are created.
prepareVerticalMergeForOneColumn(c, g) ==
    [c EXCEPT !.executor = g.rows_emitted,
              !.rows_sources_read_pos = 0,
              !.column_to = c.column_num_for_vertical_merge + 1,
              !.column_elems_written = 0]

\* The blocker test in front of the column executor's pull.
ColumnPullAllowed == ~blockers.merges_blocker /\ ~blockers.is_cancelled

\* The contexts executeVerticalMergeForOneColumn can leave, with its result.
executeVerticalMergeForOneColumn(c) ==
    IF ColumnPullAllowed /\ c.executor > 0
    THEN { [again |-> TRUE,
            ctx |-> [c EXCEPT !.column_elems_written = @ + n, !.executor = @ - n,
                              !.rows_sources_read_pos = @ + n]]
             : n \in 1 .. c.executor }
    ELSE { [again |-> FALSE, ctx |-> c] }

\* A finish step that lets the delayed writers wait.
TrimNothing(streams, max_delayed_streams) == [kept |-> streams, finished |-> <<>>]

\* delayed_streams after the while loop, and the writers it finished.
TrimDelayed(streams, max_delayed_streams) ==
    LET excess == IF Len(streams) > max_delayed_streams
                  THEN Len(streams) - max_delayed_streams ELSE 0
    IN [kept |-> SubSeq(streams, excess + 1, Len(streams)),
        finished |-> SubSeq(streams, 1, excess)]

\* A finish step without its cancellation test.
FinishCheckSkipped == FALSE

\* The cancellation test of a column's finish step.
FinishCheck == MergesCancelled

\* A finish step that does not compare the column with the key columns.
ColumnRowsUnchecked(g, c) == FALSE

\* if (global_ctx->rows_written != ctx->column_elems_written)
ColumnRowsMismatch(g, c) == g.rows_written # c.column_elems_written

finalizeVerticalMergeForOneColumn ==
    IF FinishCheck THEN {Raise("ABORTED", ctx, global_ctx)}
    ELSE
    LET trimmed == TrimDelayed(Append(ctx.delayed_streams, ctx.column_to),
                               ctx.max_delayed_streams)
        c1 == [ctx EXCEPT !.executor = 0,
                          !.column_to = 0,
                          !.delayed_streams = trimmed.kept]
        g1 == [global_ctx EXCEPT
                  !.checksums_gathered_columns = @ \cup {ctx.column_to},
                  !.finished_streams = @ \o trimmed.finished]
    IN  IF ColumnRowsMismatch(global_ctx, ctx)
        THEN {Raise("LOGICAL_ERROR", c1, g1)}
        ELSE {Ok(TRUE, [c1 EXCEPT !.column_num_for_vertical_merge = @ + 1,
                                  !.vertical_merge_one_column_state = "NEED_PREPARE"],
                 g1)}

executeVerticalMergeForAllColumns ==
    IF global_ctx.chosen_merge_algorithm # "Vertical" THEN {Ok(FALSE, ctx, global_ctx)}
    ELSE IF ctx.column_num_for_vertical_merge >= global_ctx.gathering_column_names_size
    THEN {Ok(FALSE, ctx, global_ctx)}
    ELSE IF ctx.vertical_merge_one_column_state = "NEED_PREPARE"
    THEN {Ok(TRUE, [prepareVerticalMergeForOneColumn(ctx, global_ctx)
                       EXCEPT !.vertical_merge_one_column_state = "NEED_EXECUTE"],
             global_ctx)}
    ELSE IF ctx.vertical_merge_one_column_state = "NEED_EXECUTE"
    THEN { IF r.again
           THEN WithPull(Result(NoError, TRUE, "idle", r.ctx, global_ctx, source_parts,
                                [hist EXCEPT !.observed_cancel = @ \/ MergesCancelled]))
           ELSE Result(NoError, TRUE, "idle",
                       [r.ctx EXCEPT !.vertical_merge_one_column_state = "NEED_FINISH"],
                       global_ctx, source_parts,
                       [hist EXCEPT !.observed_cancel = @ \/ MergesCancelled])
             : r \in executeVerticalMergeForOneColumn(ctx) }
    ELSE finalizeVerticalMergeForOneColumn

\* A flush of the delayed writers that tests the blockers first.
FinalizeAllColumnsChecked ==
    IF MergesCancelled THEN {Raise("ABORTED", ctx, global_ctx)}
    ELSE {Ok(FALSE, ctx,
             [global_ctx EXCEPT !.finished_streams = @ \o ctx.delayed_streams])}

finalizeVerticalMergeForAllColumns ==
    {Ok(FALSE, ctx,
        [global_ctx EXCEPT !.finished_streams = @ \o ctx.delayed_streams])}

\* --------------------------------------------------------- projections stage
\* A projection is merged as soon as one part has it.
SomePartHasProjection(inp, p) ==
    \E i \in DOMAIN inp.parts : p \in inp.parts[i].projection_parts

\* if (projection_parts.size() < global_ctx->future_part->parts.size()) continue;
AllPartsHaveProjection(inp, p) ==
    \A i \in DOMAIN inp.parts : p \in inp.parts[i].projection_parts

\* projection_merging_params.mode
ProjectionMode(type) == IF type = "Aggregate" THEN "Aggregating" ELSE "Ordinary"

\* ctx->tasks_for_projections: one nested MergeTask for every projection of
\* the table that all source parts have, in the order of the projections.
RECURSIVE MergedProjections(_, _)
MergedProjections(inp, p) ==
    IF p > inp.projections THEN <<>>
    ELSE (IF AllPartsHaveProjection(inp, p)
          THEN <<[name |-> p, state |-> "prepare", promise |-> FALSE,
                  mode |-> ProjectionMode(inp.projection_types[p]),
                  parent_part |-> "new_data_part", suffix |-> ".proj"]>>
          ELSE <<>>) \o MergedProjections(inp, p + 1)

mergeMinMaxIndexAndPrepareProjections ==
    {Ok(FALSE, [ctx EXCEPT !.tasks_for_projections = MergedProjections(input, 1),
                           !.projections_iterator = 1],
        global_ctx)}

\* One execute() call of a nested projection MergeTask: its prepare and its
\* block loop test the shared merges blocker (its merge list element is its
\* own); its last call resolves its promise and returns false.
NestedExecute(task) ==
    IF task.state \in {"prepare", "execute"} /\ blockers.merges_blocker
    THEN [error |-> "ABORTED", again |-> FALSE, task |-> task]
    ELSE IF task.state = "prepare"
    THEN [error |-> NoError, again |-> TRUE, task |-> [task EXCEPT !.state = "execute"]]
    ELSE IF task.state = "execute"
    THEN [error |-> NoError, again |-> TRUE, task |-> [task EXCEPT !.state = "finalize"]]
    ELSE [error |-> NoError, again |-> FALSE,
          task |-> [task EXCEPT !.state = "done", !.promise = TRUE]]

\* An executeProjections that moves on to the next task after every call.
executeProjectionsSkipping ==
    IF ctx.projections_iterator > Len(ctx.tasks_for_projections)
    THEN {Ok(FALSE, ctx, global_ctx)}
    ELSE
    LET r == NestedExecute(ctx.tasks_for_projections[ctx.projections_iterator])
        c1 == [ctx EXCEPT !.tasks_for_projections[ctx.projections_iterator] = r.task]
    IN  IF r.error # NoError THEN {Raise(r.error, ctx, global_ctx)}
        ELSE {Ok(TRUE, [c1 EXCEPT !.projections_iterator = @ + 1], global_ctx)}

executeProjections ==
    IF ctx.projections_iterator > Len(ctx.tasks_for_projections)
    THEN {Ok(FALSE, ctx, global_ctx)}
    ELSE
    LET r == NestedExecute(ctx.tasks_for_projections[ctx.projections_iterator])
        c1 == [ctx EXCEPT !.tasks_for_projections[ctx.projections_iterator] = r.task]
    IN  IF r.error # NoError THEN {Raise(r.error, ctx, global_ctx)}
        ELSE IF r.again THEN {Ok(TRUE, c1, global_ctx)}
        ELSE {Ok(TRUE, [c1 EXCEPT !.projections_iterator = @ + 1], global_ctx)}

\* moveVectorIndexFiles(decouple, part_id, part_name, index_name, old_part, new_part):
\* the index's files leave the source part's directory for the new part's.
moveVectorIndexFiles(sp, i, name) ==
    [sp EXCEPT ![i + 1].index_files[name] = IF @ = "source" THEN "moved" ELSE @]

RECURSIVE MoveAll(_, _, _)
MoveAll(sp, moves, n) ==
    IF n = 0 THEN sp
    ELSE moveVectorIndexFiles(MoveAll(sp, moves, n - 1), moves[n][1], moves[n][2])

\* Ascending sequence of a finite set of integers.
RECURSIVE SortedSeq(_)
SortedSeq(S) == IF S = {} THEN <<>> ELSE <<SetMin(S)>> \o SortedSeq(S \ {SetMin(S)})

\* The indices of the table the merge found eligible, in metadata order.
RECURSIVE EligibleIndices(_, _, _)
EligibleIndices(inp, g, k) ==
    IF k > Len(inp.vector_indices) THEN <<>>
    ELSE (IF inp.vector_indices[k] \in g.all_parts_have_vector_index
          THEN <<inp.vector_indices[k]>> ELSE <<>>) \o EligibleIndices(inp, g, k + 1)

\* <<part, index>> for every moveVectorIndexFiles call, in call order.
RECURSIVE MovesOf(_, _)
MovesOf(names, partseq) ==
    IF names = <<>> THEN <<>>
    ELSE [j \in 1 .. Len(partseq) |-> <<partseq[j], Head(names)>>]
         \o MovesOf(Tail(names), partseq)

\* The checksums moveVectorIndexFiles returns for part i: those of the index
\* files it moved.
MovedIndexChecksums(inp, name, i) ==
    IF inp.parts[i + 1].vector_index[name] = "BUILT"
    THEN {<<name, "index_data", i>>} ELSE {}

\* A checksums file that lists the forward map of every source part.
AllSourcesChecksums(inp, name) ==
    UNION {MovedIndexChecksums(inp, name, i) : i \in NonEmptyParts(inp)}
    \cup {<<name, "row_ids_map", i>> : i \in PartIds}
    \cup {<<name, "inverted_row_ids_map", -1>>, <<name, "inverted_row_sources_map", -1>>}

\* The files the checksums file of index `name` lists.
DecoupledChecksums(inp, name) ==
    UNION {MovedIndexChecksums(inp, name, i) : i \in NonEmptyParts(inp)}
    \cup {<<name, "row_ids_map", i>> : i \in NonEmptyParts(inp)}
    \cup {<<name, "inverted_row_ids_map", -1>>, <<name, "inverted_row_sources_map", -1>>}

SeqRange(q) == {q[j] : j \in 1 .. Len(q)}

\* A finalize that leaves the transaction as it is.
SkipPrecommit(g) == g

\* new_data_part->getDataPartStorage().precommitTransaction()
precommitTransaction(g) == [g EXCEPT !.txn = "precommitted"]

\* A finalize that handles the index of a part without rows like any other.
KeepFlagsOfEmptyPart(g) == g

\* if (new_data_part->rows_count == 0): neither a decoupled nor a single-VPart
\* index for a part without rows.
ClearFlagsOfEmptyPart(g) ==
    IF g.new_data_part.rows_count = 0
    THEN [g EXCEPT !.can_be_decouple = FALSE, !.only_one_vpart_merged = FALSE]
    ELSE g

finalizeProjectionsAndWholeMerge ==
    IF \E j \in 1 .. Len(ctx.tasks_for_projections) : ~ctx.tasks_for_projections[j].promise
    THEN {}     \* task->getFuture().get() does not return
    ELSE
    LET names == {ctx.tasks_for_projections[j].name : j \in 1 .. Len(ctx.tasks_for_projections)}
        with_projections == [global_ctx EXCEPT !.new_data_part.projection_parts = names]
        finalized == [with_projections EXCEPT
                         !.new_data_part.rows_count = global_ctx.rows_written,
                         !.new_data_part.finalized = TRUE]
        g1 == ClearFlagsOfEmptyPart(finalized)
        eligible == EligibleIndices(input, g1, 1)
        Committed(g) == [precommitTransaction([g EXCEPT !.new_data_part.index_loaded = TRUE])
                            EXCEPT !.promise = "part"]
        Done(g, sp) == Result(NoError, FALSE, "idle", ctx, Committed(g), sp,
                              [hist EXCEPT !.promise_sets = @ + 1])
        Failed(g, sp, moved) == Result("IO_FAILURE", FALSE, "idle", ctx, g, sp,
                                       [hist EXCEPT !.moved_at_failure = moved])
        Outcomes(moves, checksums, tmp_removed) ==
            { Done([g1 EXCEPT !.new_data_part.index_checksums = checksums,
                              !.rows_sources_tmp.exists = @ /\ ~tmp_removed],
                   MoveAll(source_parts, moves, Len(moves))) }
            \cup
            { Failed(g1, MoveAll(source_parts, moves, n), n > 0) : n \in 0 .. Len(moves) }
    IN  \* finalizePart fails
        { Failed(with_projections, source_parts, FALSE) }
        \cup
        (IF g1.can_be_decouple
         THEN Outcomes(MovesOf(eligible, SortedSeq(NonEmptyParts(input))),
                       IF NonEmptyParts(input) = {} THEN {}
                       ELSE UNION {DecoupledChecksums(input, n) : n \in SeqRange(eligible)},
                       TRUE)
         ELSE IF g1.only_one_vpart_merged
         THEN UNION { Outcomes(MovesOf(eligible, <<old_part>>),
                               {<<n, "index_data", old_part>> : n \in SeqRange(eligible)},
                               FALSE)
                      : old_part \in IF g1.first_part_with_data \in PartIds
                                     THEN {g1.first_part_with_data} ELSE PartIds }
         ELSE Outcomes(<<>>, {}, FALSE))

\* ------------------------------------------------------------------ driver
\* The subtasks arrays of the three stages (MergeTask.h), by number.
Subtasks ==
    << <<"prepare", "executeImpl", "generateRowIdsMap">>,
       <<"prepareVerticalMergeForAllColumns", "executeVerticalMergeForAllColumns",
         "finalizeVerticalMergeForAllColumns">>,
       <<"mergeMinMaxIndexAndPrepareProjections", "executeProjections",
         "finalizeProjectionsAndWholeMerge">> >>

StageKinds == <<"Horizontal", "Vertical", "Projections">>

\* A driver that hands the old context to the next stage.
KeepContext(s, c) == c

\* getContextForNextStage() of stage s: the fields moved into the new context.
\* ctx.reset() ends the old context; with the vertical context goes its
\* rows_sources_file.
getContextForNextStage(s, c) ==
    IF s = 1
    THEN [EmptyCtx("Vertical") EXCEPT
             !.rows_sources_write_buf = c.rows_sources_write_buf,
             !.rows_sources_file = c.rows_sources_file,
             !.column_num_for_vertical_merge = c.column_num_for_vertical_merge,
             !.need_sync = c.need_sync]
    ELSE IF s = 2
    THEN [EmptyCtx("Projections") EXCEPT !.need_sync = c.need_sync]
    ELSE c

\* A driver that stores the exception in the promise.
ThrowSetsPromise(g, code) == [g EXCEPT !.promise = "exception"]

\* An exception leaving MergeTask::execute(): nothing catches it on the way,
\* the global context is left as the throwing step left it.
Throw(g, code) == g

Running == outcome.ret \in {"none", "true"}

CurrentSubtask ==
    IF stages_iterator \in 1 .. 3 /\ subtasks_iterator[stages_iterator] \in 1 .. 3
    THEN Subtasks[stages_iterator][subtasks_iterator[stages_iterator]]
    ELSE "end"

Tick(h) == [h EXCEPT !.calls_since_cancel = IF @ >= 0 THEN @ + 1 ELSE @,
                     !.last_stage = stages_iterator]

\* A stage whose execute() returns what its substep returned.
StageReturnsSubstep(r, s) == r.again

\* execute() of stage s after its substep produced r:
\* if ((*subtasks_iterator)()) return true;
\* ++subtasks_iterator; return subtasks_iterator != subtasks.end();
StageReturnsTrue(r, s) == r.again \/ subtasks_iterator[s] < 3

\* The end of one MergeTask::execute() call whose substep produced r.
Finish(r) ==
    LET s == stages_iterator
        rh == [r.hist EXCEPT !.pulled = r.pulled]
        h == Tick(rh)
    IN
    /\ source_parts' = r.source_parts
    /\ pc' = r.pc
    /\ UNCHANGED <<input, blockers, remap>>
    /\ IF r.pc # "idle"
       THEN \* the call is still inside the substep
            /\ ctx' = r.ctx
            /\ global_ctx' = r.global_ctx
            /\ hist' = rh
            /\ UNCHANGED <<stages_iterator, subtasks_iterator, outcome>>
       ELSE IF r.error # NoError
       THEN /\ ctx' = r.ctx
            /\ global_ctx' = Throw(r.global_ctx, r.error)
            /\ outcome' = [ret |-> "throw", error |-> r.error]
            /\ hist' = [h EXCEPT !.stage_returned[s] = "throw"]
            /\ UNCHANGED <<stages_iterator, subtasks_iterator>>
       ELSE IF StageReturnsTrue(r, s)
       THEN \* the stage's execute() returned true
            /\ ctx' = r.ctx
            /\ global_ctx' = r.global_ctx
            /\ subtasks_iterator' = IF r.again THEN subtasks_iterator
                                    ELSE [subtasks_iterator EXCEPT ![s] = @ + 1]
            /\ outcome' = [ret |-> "true", error |-> NoError]
            /\ hist' = [h EXCEPT !.stage_returned[s] = "true"]
            /\ UNCHANGED stages_iterator
       ELSE \* the stage's execute() returned false
            /\ subtasks_iterator' = [subtasks_iterator EXCEPT ![s] = 4]
            /\ stages_iterator' = s + 1
            /\ ctx' = getContextForNextStage(s, r.ctx)
            /\ global_ctx' = IF s = 2 /\ r.ctx.rows_sources_file
                             THEN DropTemporaryFile(r.global_ctx) ELSE r.global_ctx
            /\ outcome' = [ret |-> IF s = 3 THEN "false" ELSE "true", error |-> NoError]
            /\ hist' = [h EXCEPT !.stage_returned[s] = "false",
                                 !.installed = IF s = 3 THEN @
                                               ELSE Append(@, StageKinds[s + 1])]

\* One MergeTask::execute() call, by the substep it reaches.
Call(name, results) ==
    /\ Running
    /\ pc = "idle"
    /\ stages_iterator \in 1 .. 3
    /\ CurrentSubtask = name
    /\ \E r \in results : Finish(r)

Prepare == Call("prepare", prepare)

ExecuteImplPull == Call("executeImpl", executeImplPull)

ExecuteImplRecheck ==
    /\ Running
    /\ pc = "recheck"
    /\ \E r \in executeImplRecheck : Finish(r)

GenerateRowIdsMap == Call("generateRowIdsMap", generateRowIdsMap)

PrepareVerticalMergeForAllColumns ==
    Call("prepareVerticalMergeForAllColumns", prepareVerticalMergeForAllColumns)

ExecuteVerticalMergeForAllColumns ==
    Call("executeVerticalMergeForAllColumns", executeVerticalMergeForAllColumns)

FinalizeVerticalMergeForAllColumns ==
    Call("finalizeVerticalMergeForAllColumns", finalizeVerticalMergeForAllColumns)

MergeMinMaxIndexAndPrepareProjections ==
    Call("mergeMinMaxIndexAndPrepareProjections", mergeMinMaxIndexAndPrepareProjections)

ExecuteProjections == Call("executeProjections", executeProjections)

FinalizeProjectionsAndWholeMerge ==
    Call("finalizeProjectionsAndWholeMerge", finalizeProjectionsAndWholeMerge)

\* ------------------------------------------------------------ other threads
\* The task is between two execute() calls of the column gathering loop.
GatheringColumns ==
    /\ stages_iterator = 2
    /\ CurrentSubtask = "executeVerticalMergeForAllColumns"
    /\ global_ctx.chosen_merge_algorithm = "Vertical"
    /\ ctx.column_num_for_vertical_merge < global_ctx.gathering_column_names_size

\* Every test of the merges blocker in MergeTask.cpp itself is behind the task.
PastLastCheckpoint ==
    /\ pc = "idle"
    /\ \/ stages_iterator = 1 /\ CurrentSubtask = "generateRowIdsMap"
       \/ stages_iterator = 2 /\ ~GatheringColumns
                              /\ (global_ctx.chosen_merge_algorithm = "Vertical"
                                    => CurrentSubtask # "prepareVerticalMergeForAllColumns")
       \/ stages_iterator = 3

\* The history of a blocker change.
Noted(b) ==
    LET was == MergesCancelled
        is == b.merges_blocker \/ b.is_cancelled
    IN [hist EXCEPT
           !.calls_since_cancel = IF ~is THEN -1
                                  ELSE IF ~was /\ GatheringColumns THEN 0
                                  ELSE @,
           !.cancel_after_data = @ \/ (is /\ ~was /\ PastLastCheckpoint)]

SetBlockers(b) ==
    /\ Running
    /\ blockers' = b
    /\ hist' = Noted(b)
    /\ UNCHANGED <<input, global_ctx, ctx, stages_iterator, subtasks_iterator, pc,
                   outcome, source_parts, remap>>

\* ActionBlocker::cancel() on merges_blocker
CancelMerges ==
    /\ ~blockers.merges_blocker
    /\ SetBlockers([blockers EXCEPT !.merges_blocker = TRUE])

\* the ActionLock on merges_blocker is released
ReleaseMerges ==
    /\ blockers.merges_blocker
    /\ SetBlockers([blockers EXCEPT !.merges_blocker = FALSE])

CancelTTLMerges ==
    /\ ~blockers.ttl_merges_blocker
    /\ SetBlockers([blockers EXCEPT !.ttl_merges_blocker = TRUE])

ReleaseTTLMerges ==
    /\ blockers.ttl_merges_blocker
    /\ SetBlockers([blockers EXCEPT !.ttl_merges_blocker = FALSE])

\* merge_list_element_ptr->is_cancelled = true (it is never cleared)
CancelMergeListElement ==
    /\ ~blockers.is_cancelled
    /\ SetBlockers([blockers EXCEPT !.is_cancelled = TRUE])

Next ==
    \/ Prepare
    \/ ExecuteImplPull
    \/ ExecuteImplRecheck
    \/ GenerateRowIdsMap
    \/ PrepareVerticalMergeForAllColumns
    \/ ExecuteVerticalMergeForAllColumns
    \/ FinalizeVerticalMergeForAllColumns
    \/ MergeMinMaxIndexAndPrepareProjections
    \/ ExecuteProjections
    \/ FinalizeProjectionsAndWholeMerge
    \/ CancelMerges
    \/ ReleaseMerges
    \/ CancelTTLMerges
    \/ ReleaseTTLMerges
    \/ CancelMergeListElement

Spec == Init /\ [][Next]_vars

\* ------------------------------------------------------ properties of Spec
Aborted(o) == o.ret = "throw" /\ o.error = "ABORTED"

\* C1: cancellation is terminal: once a checkpoint of the merge (the
\* is_cancelled() test before a block pull, the blocker test before a column
\* block pull) has seen the merges blocker or the merge list element flag set,
\* the merge ends with Aborted and the promise never holds a part, also when
\* the blocker is released between the observation and the re-check.
C1_CancellationTerminal ==
    hist.observed_cancel => (global_ctx.promise # "part" /\ outcome.ret # "false")

\* C2: with the merges blocker or the cancel flag set after a block of the
\* horizontal stage was pulled, and staying set, the next execute() call pulls
\* and writes nothing (rows_written is unchanged), throws Aborted, and leaves
\* the promise unresolved.
C2_AbortOnNextCall ==
    [][ ( /\ blockers' = blockers
          /\ MergesCancelled
          /\ Running
          /\ stages_iterator = 1
          /\ CurrentSubtask = "executeImpl"
          /\ global_ctx.rows_written > 0 )
        => /\ global_ctx'.rows_written = global_ctx.rows_written
           /\ global_ctx'.promise = "unset"
           /\ pc = "idle" => (pc' = "recheck" /\ outcome' = outcome)
           /\ pc = "recheck" => Aborted(outcome') ]_vars

C2_Witness ==
    /\ Aborted(outcome)
    /\ stages_iterator = 1
    /\ CurrentSubtask = "executeImpl"
    /\ global_ctx.rows_written > 0
    /\ global_ctx.merging_executor > 0
    /\ MergesCancelled

\* C3 (as stated): a merges blocker cancelled after the last block / the last
\* gathering column and before finalizeProjectionsAndWholeMerge makes the merge
\* fail with Aborted instead of resolving the promise.
C3_CheckedBeforeFinalize ==
    (hist.cancel_after_data /\ blockers.merges_blocker) => global_ctx.promise # "part"

\* C3 (amended): Aborted is thrown only by prepare, executeImpl, a column's
\* finish step and the nested projection tasks; generateRowIdsMap, the flush of
\* the column writers, mergeMinMaxIndexAndPrepareProjections and
\* finalizeProjectionsAndWholeMerge test no blocker, and
\* finalizeProjectionsAndWholeMerge resolves the promise with the part, or
\* fails with an I/O error, whatever the blockers say.
C3_NoCheckBeforeFinalize ==
    [][ /\ (Aborted(outcome') /\ ~Aborted(outcome))
           => CurrentSubtask \in {"prepare", "executeImpl",
                                  "executeVerticalMergeForAllColumns", "executeProjections"}
        /\ ( /\ blockers' = blockers
             /\ Running
             /\ stages_iterator = 3
             /\ CurrentSubtask = "finalizeProjectionsAndWholeMerge" )
           => \/ outcome'.ret = "false" /\ global_ctx'.promise = "part"
              \/ outcome'.ret = "throw" /\ outcome'.error = "IO_FAILURE" ]_vars

C3_Witness ==
    /\ hist.cancel_after_data
    /\ blockers.merges_blocker
    /\ outcome.ret = "false"
    /\ global_ctx.promise = "part"

\* C4: a gathering column whose finish step finds the merges blocker or the
\* cancel flag set throws Aborted before the column's checksums are added,
\* before its writer is queued and before the column counter advances; a
\* cancellation set during column gathering that persists is answered by
\* Aborted within three execute() calls.
C4_FinishStepAborts ==
    [][ /\ ( /\ blockers' = blockers
             /\ Running
             /\ GatheringColumns
             /\ ctx.vertical_merge_one_column_state = "NEED_FINISH"
             /\ MergesCancelled )
           => /\ Aborted(outcome')
              /\ global_ctx'.checksums_gathered_columns = global_ctx.checksums_gathered_columns
              /\ global_ctx'.finished_streams = global_ctx.finished_streams
              /\ ctx'.delayed_streams = ctx.delayed_streams
              /\ ctx'.column_num_for_vertical_merge = ctx.column_num_for_vertical_merge
        /\ hist'.calls_since_cancel <= 3
        /\ hist'.calls_since_cancel = 3 => Aborted(outcome')
        /\ (hist'.calls_since_cancel >= 0 /\ outcome'.ret # "true") => Aborted(outcome') ]_vars

C4_Witness ==
    /\ Aborted(outcome)
    /\ stages_iterator = 2
    /\ hist.calls_since_cancel = 3
    /\ ctx.vertical_merge_one_column_state = "NEED_FINISH"
    /\ global_ctx.checksums_gathered_columns = {}

\* C5: execute() walks the stages in order: a stage is polled again while it
\* returns true, the driver advances exactly when the stage returned false and
\* then installs the context made by getContextForNextStage() on the next
\* stage, no stage runs after a later one has started, and execute() returns
\* false exactly when the last stage returned false.
C5_StageWalk ==
    [][ /\ stages_iterator' \in {stages_iterator, stages_iterator + 1}
        /\ \A s \in 1 .. 3 : (stages_iterator' > s) <=> (hist'.stage_returned[s] = "false")
        /\ \A s \in 1 .. 3 : hist'.stage_returned[s] # "none" => s <= stages_iterator
        /\ stages_iterator' \in 1 .. 3 => ctx'.kind = StageKinds[stages_iterator']
        /\ hist'.installed = SubSeq(StageKinds, 1, Min(stages_iterator', 3))
        /\ hist'.last_stage >= hist.last_stage
        /\ hist'.last_stage # hist.last_stage => hist'.last_stage = stages_iterator
        /\ (outcome'.ret = "false") <=> (hist'.stage_returned[3] = "false") ]_vars

C5_Witness ==
    /\ outcome.ret = "false"
    /\ stages_iterator = 4
    /\ hist.installed = StageKinds
    /\ hist.last_stage = 3

\* C6: the promise is set at most once, by the last substep of the projections
\* stage only, after the writer finalized the part and the transaction was
\* pre-committed; when execute() returns false the promise holds the part.
C6_PromiseOnce ==
    [][ /\ global_ctx'.promise # global_ctx.promise
           => /\ stages_iterator = 3
              /\ CurrentSubtask = "finalizeProjectionsAndWholeMerge"
              /\ global_ctx.promise = "unset"
              /\ global_ctx'.promise = "part"
        /\ global_ctx'.promise = "part"
           => /\ global_ctx'.new_data_part.finalized
              /\ global_ctx'.txn = "precommitted"
        /\ hist'.promise_sets <= 1
        /\ outcome'.ret = "false" => global_ctx'.promise = "part" ]_vars

C6_Witness ==
    /\ outcome.ret = "false"
    /\ global_ctx.promise = "part"
    /\ hist.promise_sets = 1
    /\ global_ctx.new_data_part.rows_count > 0

\* C7 (as stated): a failed step surfaces its error through the promise: the
\* future becomes ready with the error.
C7_ErrorThroughPromise ==
    outcome.ret = "throw" => global_ctx.promise = "exception"

\* C7 (amended): a failed step's error leaves execute() as an exception and
\* the promise is never touched: it stays unresolved.
C7_ErrorPropagates ==
    outcome.ret = "throw" => (outcome.error \in ErrorCodes /\ global_ctx.promise = "unset")

C7_Witness ==
    /\ outcome.ret = "throw"
    /\ outcome.error = "LOGICAL_ERROR"
    /\ global_ctx.promise = "unset"

\* C8: source parts are unchanged on failure: in a run ending with an error,
\* every source part still holds all its vector index files.
C8_SourcePartsUnchanged ==
    outcome.ret = "throw" =>
        \A i \in 1 .. NumParts : \A n \in DOMAIN source_parts[i].index_files :
            source_parts[i].index_files[n] # "moved"

\* ------------------------------------------------------------- the data path
\* SpecRemap runs one decoupled merge row by row: the sorted merge transform
\* takes the next row of some source and writes its RowSourcePart, the rows
\* that leave the transform go through DISTINCT and the TTL transform to the
\* writer, generateRowIdsMap writes the maps, the writer finalizes the part.

\* The increasing sequences over 0 .. n-1: the _part_offset values the reader
\* of a part with n rows can deliver (rows under a lightweight delete mask are
\* not delivered).
RECURSIVE IncreasingSeqs(_)
IncreasingSeqs(n) ==
    IF n = 0 THEN {<<>>}
    ELSE LET shorter == IncreasingSeqs(n - 1)
         IN shorter \cup {Append(q, n - 1) : q \in shorter}

RemapInputs ==
    { [ pc                         |-> "merging",
        mode                       |-> mode,
        deduplicate                |-> dedup,
        need_remove_expired_values |-> ttl,
        rows_count                 |-> rows,
        part_offsets               |-> offsets,
        source_row                 |-> [i \in 1 .. NumParts |-> 0],
        rows_sources               |-> <<>>,
        rows_written               |-> 0,
        row_ids_map                |-> [i \in 1 .. NumParts |-> <<>>],
        inverted_row_ids_map       |-> <<>>,
        delete_row_ids             |-> [i \in 1 .. NumParts |-> <<>>],
        new_rows_count             |-> 0 ] :
        mode \in Modes, dedup \in BOOLEAN, ttl \in BOOLEAN,
        rows \in [1 .. NumParts -> 0 .. MaxRemapRows],
        offsets \in [1 .. NumParts -> IncreasingSeqs(MaxRemapRows)] }

\* The merge of SpecRemap: every source part has a BUILT index.
RemapInput ==
    CHOOSE inp \in SpecInputs :
        /\ \A i \in 1 .. NumParts : inp.parts[i].vector_index["vec_idx"] = "BUILT"
                                    /\ inp.parts[i].rows_count = MaxPartRows
                                    /\ inp.parts[i].part_min_ttl = 0
                                    /\ inp.parts[i].projection_parts = {}
        /\ ~inp.deduplicate /\ ~inp.dir_exists /\ inp.gathering = 0

InitSpecRemap ==
    /\ input = RemapInput
    /\ InitCommon
    /\ source_parts = [i \in 1 .. NumParts |->
                          [index_files |-> [n \in {"vec_idx"} |-> "source"],
                           bitmap_pushed |-> FALSE]]
    /\ remap \in {r \in RemapInputs :
                    \A i \in 1 .. NumParts :
                        \A j \in 1 .. Len(r.part_offsets[i]) :
                            r.part_offsets[i][j] < r.rows_count[i]}

\* The merged transform consumes the next row of source s (0-based): skip is
\* the flag of its RowSourcePart, dropped says DISTINCT or the TTL transform
\* removed it on its way to the writer.
RemapMergeRow(s, skip, dropped) ==
    /\ remap.pc = "merging"
    /\ remap.source_row[s + 1] < Len(remap.part_offsets[s + 1])
    /\ skip => remap.mode # "Ordinary"
    /\ dropped => (~skip /\ (remap.deduplicate \/ remap.need_remove_expired_values))
    /\ remap' = [remap EXCEPT
          !.source_row[s + 1] = @ + 1,
          !.rows_sources = IF WritesRowsSources(remap.mode)
                           THEN Append(@, [source_num |-> s, skip |-> skip])
                           ELSE @,
          !.rows_written = IF skip \/ dropped THEN @ ELSE @ + 1]
    /\ UNCHANGED <<input, blockers, global_ctx, ctx, stages_iterator, subtasks_iterator,
                   pc, outcome, source_parts, hist>>

\* parts_new_row_ids[source_num][old_part_offset] = new_part_row_id
Put(m, k, v) == [x \in DOMAIN m \cup {k} |-> IF x = k THEN v ELSE m[x]]

\* The loop over the rows sources file: st is new_part_row_id, source_row_ids,
\* parts_new_row_ids and what was written to inverted_row_ids_map_buf.  The
\* collapsing branch passes a record with the skip flag by; the other branch
\* does not look at the flag.
RECURSIVE ReadRowsSources(_, _, _, _)
ReadRowsSources(collapsing, stream, part_offsets, st) ==
    IF stream = <<>> THEN st
    ELSE
    LET row_source == Head(stream)
        n == row_source.source_num + 1
        taken == ~collapsing \/ ~row_source.skip
        old_part_offset == part_offsets[n][st.source_row_ids[n] + 1]
        st1 == IF taken
               THEN [st EXCEPT
                       !.parts_new_row_ids[n] = Put(@, old_part_offset, st.new_part_row_id),
                       !.inverted = Append(@, old_part_offset),
                       !.new_part_row_id = @ + 1]
               ELSE st
    IN ReadRowsSources(collapsing, Tail(stream), part_offsets,
                       [st1 EXCEPT !.source_row_ids[n] = @ + 1])

\* The collapsing branch's loop over the old rows of one source: a row with a
\* new row id gets its id written, any other row is put into deleteRowIds and
\* nothing is written for it.  w is the file, deleteRowIds and i so far.
RECURSIVE WriteCollapsing(_, _, _, _)
WriteCollapsing(new_row_ids, partRowNum, old_row_id, w) ==
    IF old_row_id >= partRowNum THEN w
    ELSE WriteCollapsing(new_row_ids, partRowNum, old_row_id + 1,
            IF old_row_id \in DOMAIN new_row_ids
            THEN [w EXCEPT !.file = Append(@, new_row_ids[old_row_id])]
            ELSE [w EXCEPT !.deleteRowIds[w.i + 1] = old_row_id, !.i = @ + 1])

\* A loop that writes an entry only for an old row that has a new row id.
RECURSIVE WriteOrdinaryCompacted(_, _, _)
WriteOrdinaryCompacted(new_row_ids, rows_count, old_row_id) ==
    IF old_row_id >= rows_count THEN <<>>
    ELSE (IF old_row_id \in DOMAIN new_row_ids THEN <<new_row_ids[old_row_id]>> ELSE <<>>)
         \o WriteOrdinaryCompacted(new_row_ids, rows_count, old_row_id + 1)

\* The other branch's loop: every old row gets an entry, its new row id or
\* UInt64 new_row_id = -1.
RECURSIVE WriteOrdinary(_, _, _)
WriteOrdinary(new_row_ids, rows_count, old_row_id) ==
    IF old_row_id >= rows_count THEN <<>>
    ELSE <<IF old_row_id \in DOMAIN new_row_ids THEN new_row_ids[old_row_id]
           ELSE UINT64_MAX>>
         \o WriteOrdinary(new_row_ids, rows_count, old_row_id + 1)

\* The maps generateRowIdsMap writes for the merge r, and the vectors it hands
\* to updateBitMap (<<>> for a source updateBitMap is not called for).
RowIdsMaps(r) ==
    LET collapsing == r.mode \in CollapsingModes
        read == ReadRowsSources(collapsing, r.rows_sources, r.part_offsets,
                    [new_part_row_id   |-> 0,
                     source_row_ids    |-> [i \in 1 .. NumParts |-> 0],
                     parts_new_row_ids |-> [i \in 1 .. NumParts |-> <<>>],
                     inverted          |-> <<>>])
        written == [i \in 1 .. NumParts |->
                      WriteCollapsing(read.parts_new_row_ids[i], r.rows_count[i], 0,
                          [file |-> <<>>,
                           deleteRowIds |-> [j \in 1 .. r.rows_count[i] |-> 0],
                           i |-> 0])]
    IN [ inverted_row_ids_map |-> read.inverted,
         row_ids_map |->
             [i \in 1 .. NumParts |->
                 IF collapsing THEN written[i].file
                 ELSE WriteOrdinary(read.parts_new_row_ids[i], r.rows_count[i], 0)],
         delete_row_ids |->
             [i \in 1 .. NumParts |->
                 IF collapsing /\ written[i].i > 0 THEN written[i].deleteRowIds ELSE <<>>] ]

\* generateRowIdsMap, once the merged pipeline has delivered its last block.
RemapGenerateRowIdsMap ==
    /\ remap.pc = "merging"
    /\ \A i \in 1 .. NumParts : remap.source_row[i] = Len(remap.part_offsets[i])
    /\ LET maps == RowIdsMaps(remap)
       IN remap' = [remap EXCEPT !.pc = "mapped",
                                 !.row_ids_map = maps.row_ids_map,
                                 !.inverted_row_ids_map = maps.inverted_row_ids_map,
                                 !.delete_row_ids = maps.delete_row_ids]
    /\ UNCHANGED <<input, blockers, global_ctx, ctx, stages_iterator, subtasks_iterator,
                   pc, outcome, source_parts, hist>>

\* finalizePart: the new part's rows_count is what the writer was given.
RemapFinalizePart ==
    /\ remap.pc = "mapped"
    /\ remap' = [remap EXCEPT !.pc = "finalized", !.new_rows_count = remap.rows_written]
    /\ UNCHANGED <<input, blockers, global_ctx, ctx, stages_iterator, subtasks_iterator,
                   pc, outcome, source_parts, hist>>

NextRemap ==
    \/ \E s \in PartIds, skip \in BOOLEAN, dropped \in BOOLEAN : RemapMergeRow(s, skip, dropped)
    \/ RemapGenerateRowIdsMap
    \/ RemapFinalizePart

SpecRemap == InitSpecRemap /\ [][NextRemap]_vars

\* ------------------------------------------------- properties of SpecRemap
\* The merge keeps its maps (the new part has rows) and no source row is under
\* a lightweight delete mask.
KeepsMaps(r) ==
    /\ r.rows_written > 0
    /\ \A i \in 1 .. NumParts : Len(r.part_offsets[i]) = r.rows_count[i]

\* The records of the RowSourceStream with skip = 0, in order.
Emitted(r) == SelectSeq(r.rows_sources, LAMBDA x : ~x.skip)

\* C9: forward / inverted inversion: after generateRowIdsMap, for every source
\* s and old row k whose forward entry is not UINT64_MAX, the forward[s][k]-th
\* emitted record of the RowSourceStream has source_num = s and
\* inverted[forward[s][k]] = k, in the collapsing branch and in the other one.
C9_Inversion ==
    (remap.pc \in {"mapped", "finalized"} /\ KeepsMaps(remap)) =>
        \A s \in PartIds : \A k \in 0 .. (Len(remap.row_ids_map[s + 1]) - 1) :
            LET new_row_id == remap.row_ids_map[s + 1][k + 1]
            IN new_row_id # UINT64_MAX =>
                  /\ new_row_id < Len(Emitted(remap))
                  /\ new_row_id < Len(remap.inverted_row_ids_map)
                  /\ Emitted(remap)[new_row_id + 1].source_num = s
                  /\ remap.inverted_row_ids_map[new_row_id + 1] = k

\* The forward entries that are not UINT64_MAX, over all sources.
AliveForward(r) ==
    SumOver(1 .. NumParts,
            [i \in 1 .. NumParts |->
                Cardinality({k \in 1 .. Len(r.row_ids_map[i]) :
                                r.row_ids_map[i][k] # UINT64_MAX})])

\* C10: in a decoupled merge the alive forward entries of all sources, and the
\* entries of the inverted map, are as many as the finalized part has rows,
\* also when DISTINCT or the TTL transform drop rows behind the sorted merge.
C10_MapCounts ==
    (remap.pc = "finalized" /\ remap.mode = "Ordinary" /\ KeepsMaps(remap)) =>
        /\ AliveForward(remap) = remap.new_rows_count
        /\ Len(remap.inverted_row_ids_map) = remap.new_rows_count

\* The position among the rows of source s of the p-th record of the
\* RowSourceStream: source_row_ids[source_num] when the record is read.
SourceRowOf(r, p) ==
    Cardinality({q \in 1 .. p : r.rows_sources[q].source_num = r.rows_sources[p].source_num})

\* The old row (_part_offset) the p-th record of the RowSourceStream stands for.
OldRowOf(r, p) ==
    r.part_offsets[r.rows_sources[p].source_num + 1][SourceRowOf(r, p)]

\* The new row id of the p-th record: the records with skip = 0 before it.
NewRowOf(r, p) == Cardinality({q \in 1 .. (p - 1) : ~r.rows_sources[q].skip})

\* The records that brought old row k of source s into the new part.
SurvivingRecords(r, s, k) ==
    {p \in 1 .. Len(r.rows_sources) :
        /\ r.rows_sources[p].source_num = s
        /\ ~r.rows_sources[p].skip
        /\ OldRowOf(r, p) = k}

\* The new row id of old row k of source s, UINT64_MAX when it has none.
NewRowIdOf(r, s, k) ==
    IF SurvivingRecords(r, s, k) = {} THEN UINT64_MAX
    ELSE NewRowOf(r, CHOOSE p \in SurvivingRecords(r, s, k) : TRUE)

\* C11: forward map format: after generateRowIdsMap, in every merging mode, the
\* forward map of every source i has exactly rows_count[i] entries, and the
\* entry at offset k is the new row id of old row k, or UINT64_MAX when old
\* row k has none.
C11_ForwardFormat ==
    (remap.pc \in {"mapped", "finalized"} /\ KeepsMaps(remap)) =>
        \A s \in PartIds :
            /\ Len(remap.row_ids_map[s + 1]) = remap.rows_count[s + 1]
            /\ \A k \in 0 .. (remap.rows_count[s + 1] - 1) :
                  remap.row_ids_map[s + 1][k + 1] = NewRowIdOf(remap, s, k)

\* C12: in the collapsing modes a record with skip = 1 produces no entry of
\* the inverted map and no new row id, the records after it of the same source
\* still stand for the right old rows (the source's cursor went past it), and
\* its old row is not alive in the forward map of its source.
C12_SkipRecords ==
    (remap.pc \in {"mapped", "finalized"} /\ remap.mode \in CollapsingModes
        /\ KeepsMaps(remap)) =>
        /\ Len(remap.inverted_row_ids_map) = Len(Emitted(remap))
        /\ \A p \in 1 .. Len(remap.rows_sources) :
              IF remap.rows_sources[p].skip
              THEN LET forward == remap.row_ids_map[remap.rows_sources[p].source_num + 1]
                       k == OldRowOf(remap, p)
                   IN ~(k < Len(forward) /\ forward[k + 1] # UINT64_MAX)
              ELSE remap.inverted_row_ids_map[NewRowOf(remap, p) + 1] = OldRowOf(remap, p)

\* C13: in the collapsing modes the vector handed to updateBitMap for source s
\* holds exactly the old rows of s without a new row id: no surviving row is
\* in it, and no vector is handed over for a source without dropped rows.
C13_DeleteRowIds ==
    (remap.pc \in {"mapped", "finalized"} /\ remap.mode \in CollapsingModes
        /\ KeepsMaps(remap)) =>
        \A s \in PartIds :
            SeqRange(remap.delete_row_ids[s + 1]) =
                {k \in 0 .. (remap.rows_count[s + 1] - 1) :
                    NewRowIdOf(remap, s, k) = UINT64_MAX}

\* C15: in a merge whose vector index is decoupled the sorted merge transform
\* of every merging mode, Summing, Aggregating and Graphite included, records
\* one entry of the RowSourceStream per row it consumes.
C15_StreamRecorded ==
    DecoupleCheck(input).can_be_decouple =>
        Len(remap.rows_sources) =
            SumOver(1 .. NumParts, [i \in 1 .. NumParts |-> remap.source_row[i]])

\* C35: in an Ordinary merge, the j-th record (0-based) of the RowSourceStream
\* naming source s, being the c-th record of s, gives
\* inverted[j] = part_offsets[s][c] and forward[s][part_offsets[s][c]] = j, and
\* the inverted map has one entry per record.
C35_OrdinaryMaps ==
    (remap.pc \in {"mapped", "finalized"} /\ remap.mode = "Ordinary") =>
        /\ Len(remap.inverted_row_ids_map) = Len(remap.rows_sources)
        /\ \A j \in 0 .. (Len(remap.rows_sources) - 1) :
              LET s == remap.rows_sources[j + 1].source_num
                  c == Cardinality({i \in 1 .. j : remap.rows_sources[i].source_num = s})
                  old_part_offset == remap.part_offsets[s + 1][c + 1]
              IN /\ remap.inverted_row_ids_map[j + 1] = old_part_offset
                 /\ old_part_offset + 1 \in DOMAIN remap.row_ids_map[s + 1]
                 /\ remap.row_ids_map[s + 1][old_part_offset + 1] = j

\* Sources A and B of two rows each, merged as A, B, A, B.
C35_Witness ==
    /\ remap.pc = "mapped" /\ remap.mode = "Ordinary"
    /\ Len(remap.rows_sources) = 4
    /\ [i \in 1 .. 4 |-> remap.rows_sources[i].source_num] = <<0, 1, 0, 1>>
    /\ remap.row_ids_map[1] = <<0, 2>> /\ remap.row_ids_map[2] = <<1, 3>>
    /\ remap.inverted_row_ids_map = <<0, 0, 1, 1>>

\* ------------------------------------------- merges with lightweight deletes
\* SpecDecouple runs the same task on source parts that all carry a column
\* index and may carry a lightweight delete mask, so that a merge with a single
\* part that has the index BUILT can stay decoupled.
DecoupleInputs ==
    { [ parts          |-> [i \in 1 .. NumParts |->
                               Part(rows[i], [n \in {"vec_idx"} |-> vi[i]],
                                    lwd[i], 0, TRUE, projs)],
        mode           |-> "Ordinary",
        deduplicate    |-> FALSE,
        is_ttl_merge   |-> FALSE,
        has_any_ttl    |-> TRUE,
        columns_ttl_finished |-> {},
        part_type_wide |-> TRUE,
        storage_full   |-> TRUE,
        dir_exists     |-> FALSE,
        gathering      |-> cols,
        projections    |-> MaxProjections,
        projection_types |-> [p \in 1 .. MaxProjections |-> "Normal"],
        vector_indices |-> VectorIndexNames,
        time_of_merge  |-> 1,
        settings       |-> DefaultSettings ] :
        rows \in [1 .. NumParts -> 0 .. MaxPartRows],
        vi \in [1 .. NumParts -> {"PENDING", "BUILT"}],
        lwd \in [1 .. NumParts -> BOOLEAN],
        projs \in {{}, 1 .. MaxProjections},
        cols \in 0 .. MaxGatherCols }

InitDecouple ==
    /\ input \in DecoupleInputs
    /\ InitCommon
    /\ source_parts = [i \in 1 .. NumParts |->
                          [index_files |-> [n \in {"vec_idx"} |->
                                               IF input.parts[i].vector_index[n] = "BUILT"
                                               THEN "source" ELSE "none"],
                           bitmap_pushed |-> FALSE]]
    /\ remap = InitRemap

SpecDecouple == InitDecouple /\ [][Next]_vars

\* ------------------------------------------------------ properties of Spec (2)
\* C14: whenever the RowSourceStream is used (generateRowIdsMap has read it,
\* or the vertical stage has opened a gathering column), rows_sources_count +
\* input_rows_filtered is the total number of rows of the source parts.
C14_RowsSourcesCount ==
    (global_ctx.row_ids_maps_written \/ (ctx.kind = "Vertical" /\ ctx.column_to > 0)) =>
        global_ctx.rows_sources_count + global_ctx.input_rows_filtered = TotalRows(input)

\* C16: once prepare has run, a vector index name is eligible only if the
\* setting enable_decouple_vector_index is on and every non-empty source part
\* has the index BUILT: the empty source parts do not count, whether or not
\* they carry the index.
C16_Eligibility ==
    global_ctx.txn # "none" =>
        \A k \in 1 .. Len(input.vector_indices) :
            LET name == input.vector_indices[k]
            IN name \in global_ctx.all_parts_have_vector_index
                 => /\ input.settings.enable_decouple_vector_index
                    /\ \A i \in NonEmptyParts(input) :
                           input.parts[i + 1].vector_index[name] = "BUILT"

\* C17: once prepare has run for a merge with exactly one non-empty source
\* part, which has the index BUILT and no lightweight delete mask, the merge
\* is a single-VPart merge: only_one_vpart_merged is set and can_be_decouple
\* is not.
C17_OnlyOneVPart ==
    (/\ global_ctx.txn # "none"
     /\ ~global_ctx.new_data_part.finalized
     /\ Cardinality(NonEmptyParts(input)) = 1
     /\ \A i \in NonEmptyParts(input) :
            /\ \A k \in 1 .. Len(input.vector_indices) :
                   input.parts[i + 1].vector_index[input.vector_indices[k]] = "BUILT"
            /\ ~input.parts[i + 1].lightweight_delete)
    => (global_ctx.only_one_vpart_merged /\ ~global_ctx.can_be_decouple)

\* C18: when the finalized part has no rows, can_be_decouple and
\* only_one_vpart_merged are both off from finalizePart on, no index file of a
\* source part has been moved and the new part has no index checksums file.
C18_EmptyPartNoIndex ==
    (global_ctx.new_data_part.finalized /\ global_ctx.new_data_part.rows_count = 0) =>
        /\ ~global_ctx.can_be_decouple
        /\ ~global_ctx.only_one_vpart_merged
        /\ global_ctx.new_data_part.index_checksums = {}
        /\ \A i \in 1 .. NumParts : \A n \in DOMAIN source_parts[i].index_files :
               source_parts[i].index_files[n] # "moved"

\* A merge that prepare found decoupled delivered a part without rows.
C18_Witness ==
    /\ global_ctx.new_data_part.finalized
    /\ global_ctx.new_data_part.rows_count = 0
    /\ global_ctx.promise = "part"
    /\ global_ctx.inverted_row_ids_map_file_path
    /\ NonEmptyParts(input) # {}

\* ------------------------------------------------ properties of SpecDecouple
\* C19: when a decoupled merge has handed over its part, the index files of
\* exactly the non-empty source parts have been moved, and the checksums file
\* of every eligible index lists exactly those moved index files, the forward
\* map of every non-empty source part, the inverted row ids map and the
\* inverted row sources map: no forward map of an empty source part.
C19_ChecksumsContent ==
    (global_ctx.promise = "part" /\ global_ctx.can_be_decouple) =>
        /\ \A i \in PartIds : \A n \in global_ctx.all_parts_have_vector_index :
               source_parts[i + 1].index_files[n] = "moved"
                   => i \in NonEmptyParts(input)
        /\ global_ctx.new_data_part.index_checksums =
               UNION { {<<n, "index_data", i>> :
                           i \in {j \in PartIds : source_parts[j + 1].index_files[n] = "moved"}}
                       \cup {<<n, "row_ids_map", i>> : i \in NonEmptyParts(input)}
                       \cup {<<n, "inverted_row_ids_map", -1>>,
                             <<n, "inverted_row_sources_map", -1>>}
                       : n \in global_ctx.all_parts_have_vector_index }

\* A decoupled merge of an empty and a non-empty source part handed over its part.
C19_Witness ==
    /\ global_ctx.promise = "part"
    /\ global_ctx.can_be_decouple
    /\ NonEmptyParts(input) # PartIds
    /\ \E i \in NonEmptyParts(input) :
           <<"vec_idx", "index_data", i>> \in global_ctx.new_data_part.index_checksums

\* C20: when a decoupled merge has handed over its part, the forward map file
\* of source part i has been produced in the new part's directory if and only
\* if source part i is not empty.
C20_ForwardFiles ==
    (global_ctx.promise = "part" /\ global_ctx.can_be_decouple) =>
        global_ctx.row_ids_map_bufs = NonEmptyParts(input)

ChooseInput(size, rows, ttl, calculated, wide, mode, dedup, type_wide, full, cols, enable, allow, finished) ==
    [ parts          |-> [i \in 1 .. size |->
                             [Part(IF i <= NumParts THEN rows ELSE 0,
                                   [n \in {"vec_idx"} |-> "none"], FALSE,
                                   IF i = 1 THEN ttl ELSE 0, i # 1 \/ calculated, {})
                                EXCEPT !.is_wide = (i # 1 \/ wide)]],
      mode           |-> mode,
      deduplicate    |-> dedup,
      is_ttl_merge   |-> FALSE,
      has_any_ttl    |-> TRUE,
      columns_ttl_finished |-> finished,
      part_type_wide |-> type_wide,
      storage_full   |-> full,
      dir_exists     |-> FALSE,
      gathering      |-> cols,
      projections    |-> MaxProjections,
      projection_types |-> [p \in 1 .. MaxProjections |-> "Normal"],
      vector_indices |-> VectorIndexNames,
      time_of_merge  |-> MergeTime,
      settings       |-> [DefaultSettings EXCEPT
                             !.enable_vertical_merge_algorithm = enable,
                             !.allow_vertical_merges_from_compact_to_wide_parts = allow] ]

\* Merges of NumParts parts in every combination.  The column TTLs of the
\* parts may name a column the table does not have any more.
ChooseInputs ==
    { ChooseInput(NumParts, rows, ttl, calculated, wide, mode, dedup, type_wide,
                  full, cols, enable, allow, finished) :
        rows \in 0 .. MaxPartRows,
        ttl \in 0 .. (MergeTime + 1),
        calculated \in BOOLEAN,
        wide \in BOOLEAN,
        mode \in Modes,
        dedup \in BOOLEAN,
        type_wide \in BOOLEAN,
        full \in BOOLEAN,
        cols \in 0 .. MaxGatherCols,
        enable \in {0, 1},
        allow \in BOOLEAN,
        finished \in SUBSET (0 .. MaxGatherCols) }

\* Merges of more than MAX_PARTS wide parts without TTL, in every mode.
ManyPartsInputs ==
    { ChooseInput(MAX_PARTS + 1, rows, 0, TRUE, TRUE, mode, dedup, TRUE, TRUE, cols,
                  enable, TRUE, {}) :
        rows \in 0 .. MaxPartRows,
        mode \in Modes,
        dedup \in BOOLEAN,
        cols \in 0 .. MaxGatherCols,
        enable \in {0, 1} }

InitChoose ==
    /\ \/ input \in ChooseInputs
       \/ input \in ManyPartsInputs
    /\ blockers \in {[InitBlockers EXCEPT !.ttl_merges_blocker = b] : b \in BOOLEAN}
    /\ global_ctx = InitGlobalCtx
    /\ ctx = EmptyCtx("Horizontal")
    /\ stages_iterator = 1
    /\ subtasks_iterator = [s \in 1 .. 3 |-> 1]
    /\ pc = "idle"
    /\ outcome = [ret |-> "none", error |-> NoError]
    /\ hist = InitHist
    /\ source_parts = <<>>
    /\ remap = InitRemap

\* The part of prepare that sets need_remove_expired_values and force_ttl,
\* global_ctx->chosen_merge_algorithm = chooseMergeAlgorithm(), and the
\* columns handed to the writers.
ChooseMergeAlgorithm ==
    /\ global_ctx.chosen_merge_algorithm = "Undecided"
    /\ LET need_remove == NeedRemoveExpiredValues(input, blockers.ttl_merges_blocker)
           alg == chooseMergeAlgorithm(input, need_remove, input.gathering)
           columns == SkipExpiredColumns(input, need_remove, ColumnsOf(input, alg))
       IN /\ ctx' = [ctx EXCEPT !.need_remove_expired_values = need_remove,
                                !.force_ttl = ForceTTL(input)]
          /\ global_ctx' = [global_ctx EXCEPT
                               !.chosen_merge_algorithm = alg,
                               !.gathering_column_names = Cardinality(columns.gathering),
                               !.merging_columns = columns.merging,
                               !.gathering_columns = columns.gathering,
                               !.new_data_part.expired_columns = columns.expired_columns]
    /\ UNCHANGED <<input, blockers, stages_iterator, subtasks_iterator, pc, outcome,
                   source_parts, hist, remap>>

SpecChoose == InitChoose /\ [][ChooseMergeAlgorithm]_vars

\* --------------------------------------------------- properties of SpecChoose
\* C22: chooseMergeAlgorithm returns Vertical exactly when deduplicate is
\* off, enable_vertical_merge_algorithm is not 0, TTL eviction is not active,
\* the future part is Wide and Full, every source part is Wide or the setting
\* allow_vertical_merges_from_compact_to_wide_parts is on, the mode is
\* Ordinary, Collapsing, Replacing or VersionedCollapsing, there are at least
\* vertical_merge_algorithm_min_columns_to_activate gathering columns and
\* vertical_merge_algorithm_min_rows_to_activate rows, and at most MAX_PARTS
\* source parts; it returns Horizontal otherwise.
C22_VerticalIff ==
    global_ctx.chosen_merge_algorithm # "Undecided" =>
        /\ global_ctx.chosen_merge_algorithm \in {"Vertical", "Horizontal"}
        /\ global_ctx.chosen_merge_algorithm = "Vertical" <=>
              /\ ~input.deduplicate
              /\ input.settings.enable_vertical_merge_algorithm # 0
              /\ ~ctx.need_remove_expired_values
              /\ input.part_type_wide
              /\ input.storage_full
              /\ \/ \A i \in DOMAIN input.parts : input.parts[i].is_wide
                 \/ input.settings.allow_vertical_merges_from_compact_to_wide_parts
              /\ input.mode \in {"Ordinary", "Collapsing", "Replacing", "VersionedCollapsing"}
              /\ input.gathering >=
                     input.settings.vertical_merge_algorithm_min_columns_to_activate
              /\ TotalRows(input) >= input.settings.vertical_merge_algorithm_min_rows_to_activate
              /\ Len(input.parts) <= MAX_PARTS

\* Horizontal was chosen for nothing but the number of source parts.
C22_Witness ==
    /\ global_ctx.chosen_merge_algorithm = "Horizontal"
    /\ Len(input.parts) > MAX_PARTS
    /\ chooseMergeAlgorithm([input EXCEPT !.parts = SubSeq(@, 1, NumParts)],
                            ctx.need_remove_expired_values, input.gathering) = "Vertical"

\* Some source part reports a minimum row TTL that is at most time_of_merge.
SomeRowTTLExpired(inp) ==
    \E i \in DOMAIN inp.parts :
        inp.parts[i].part_min_ttl # 0 /\ inp.parts[i].part_min_ttl <= inp.time_of_merge

\* Some source part has TTL metadata that is not computed yet.
SomeTTLNotCalculated(inp) ==
    \E i \in DOMAIN inp.parts : ~inp.parts[i].all_ttl_calculated

\* C23 as claimed: at the end of prepare need_remove_expired_values is on
\* exactly when some source part reports a minimum row TTL of at most
\* time_of_merge or has TTL metadata not computed yet, and force_ttl is on in
\* the second case.
C23_EvictionIff ==
    global_ctx.chosen_merge_algorithm # "Undecided" =>
        /\ ctx.need_remove_expired_values
              <=> (SomeRowTTLExpired(input) \/ SomeTTLNotCalculated(input))
        /\ SomeTTLNotCalculated(input) => ctx.force_ttl

\* C23, amended: at the end of prepare need_remove_expired_values is on
\* exactly when the TTL merges blocker is not cancelled and some source part
\* reports a minimum row TTL of at most time_of_merge or has TTL metadata not
\* computed yet; force_ttl is on exactly in the second case, whatever the
\* blocker says.
C23_EvictionUnlessBlocked ==
    global_ctx.chosen_merge_algorithm # "Undecided" =>
        /\ ctx.need_remove_expired_values
              <=> /\ ~blockers.ttl_merges_blocker
                  /\ SomeRowTTLExpired(input) \/ SomeTTLNotCalculated(input)
        /\ ctx.force_ttl <=> SomeTTLNotCalculated(input)

\* Rows are expired, the TTL merges blocker is cancelled, nothing is evicted.
C23_Witness ==
    /\ global_ctx.chosen_merge_algorithm # "Undecided"
    /\ blockers.ttl_merges_blocker
    /\ SomeRowTTLExpired(input)
    /\ ~ctx.need_remove_expired_values

\* C25 as claimed: after prepare every column whose TTL is finished is in the
\* new part's expired_columns and in neither the merging nor the gathering
\* columns, with or without need_remove_expired_values.
C25_ExpiredColumnsSkipped ==
    global_ctx.chosen_merge_algorithm # "Undecided" =>
        /\ input.columns_ttl_finished \subseteq global_ctx.new_data_part.expired_columns
        /\ input.columns_ttl_finished
              \cap (global_ctx.merging_columns \cup global_ctx.gathering_columns) = {}

\* C25, amended: after a prepare that leaves need_remove_expired_values off,
\* every column whose TTL is finished is in the new part's expired_columns
\* and in neither the merging nor the gathering columns; after a prepare that
\* turns it on, prepare has recorded no expired column and every column of
\* the table is among the merging and the gathering columns.
C25_ExpiredColumnsSkippedWithoutEviction ==
    global_ctx.chosen_merge_algorithm # "Undecided" =>
        /\ ~ctx.need_remove_expired_values =>
              /\ global_ctx.new_data_part.expired_columns = input.columns_ttl_finished
              /\ global_ctx.merging_columns \cup global_ctx.gathering_columns
                    = (0 .. input.gathering) \ input.columns_ttl_finished
        /\ ctx.need_remove_expired_values =>
              /\ global_ctx.new_data_part.expired_columns = {}
              /\ global_ctx.merging_columns \cup global_ctx.gathering_columns
                    = 0 .. input.gathering

\* A merge with TTL eviction one of whose columns has a finished TTL and is
\* still handed to the writer.
C25_Witness ==
    /\ global_ctx.chosen_merge_algorithm = "Horizontal"
    /\ ctx.need_remove_expired_values
    /\ input.columns_ttl_finished \cap global_ctx.merging_columns # {}

\* ----------------------------------------------------- properties of Spec (4)
\* C24: a prepare() that finds a merge of a TTL merge type while the TTL
\* merges blocker is cancelled throws ABORTED, and at that point no new part
\* object is built, no transaction is begun, no temporary directory is locked
\* and no rows sources file exists.
C24_TTLMergeAborted ==
    [][ ( /\ Running /\ pc = "idle" /\ CurrentSubtask = "prepare"
          /\ blockers' = blockers
          /\ input.is_ttl_merge /\ blockers.ttl_merges_blocker )
        => /\ outcome' = [ret |-> "throw", error |-> "ABORTED"]
           /\ ~global_ctx'.new_data_part.built
           /\ global_ctx'.txn = "none"
           /\ ~global_ctx'.temporary_directory_lock
           /\ ~global_ctx'.rows_sources_tmp.exists
           /\ ~ctx'.rows_sources_file ]_vars

\* A TTL merge aborted by the TTL merges blocker alone.
C24_Witness ==
    /\ outcome = [ret |-> "throw", error |-> "ABORTED"]
    /\ CurrentSubtask = "prepare"
    /\ input.is_ttl_merge /\ blockers.ttl_merges_blocker
    /\ ~MergesCancelled
    /\ ~global_ctx.new_data_part.built

\* ------------------------------------------------------------ the sorted merge
\* SpecSorted merges the rows of NumParts parts, each sorted by its key, as
\* createMergedStream sets the merge up: one pipe per part, every sort column
\* ascending, and the rows sources buffer handed to the merged transform.

\* Pipes in the reverse order of the parts.
PipesReversed == [i \in 1 .. NumParts |-> NumParts + 1 - i]

\* for (const auto & part : global_ctx->future_part->parts)
\*     pipes.emplace_back(std::move(pipe));
\* Pipes[i] is the part the i-th input stream reads.
Pipes == [i \in 1 .. NumParts |-> i]

\* The key columns of a part: at most MaxRemapRows rows, in the order of the
\* sorting key.
SortedKeys ==
    { q \in UNION {[1 .. k -> 0 .. MaxKey] : k \in 0 .. MaxRemapRows} :
        \A i \in 1 .. (Len(q) - 1) : q[i] <= q[i + 1] }

InitSorted ==
    /\ input = RemapInput
    /\ InitCommon
    /\ source_parts = <<>>
    /\ remap \in { [ pc           |-> "sorting",
                      mode         |-> mode,
                      keys         |-> keys,
                      row          |-> [i \in 1 .. NumParts |-> 0],
                      consumed     |-> <<>>,
                      emitted      |-> <<>>,
                      rows_sources |-> <<>> ] :
                    mode \in Modes, keys \in [1 .. NumParts -> SortedKeys] }

\* The input streams that still hold a row.
StreamsWithRows(r) == {i \in 1 .. NumParts : r.row[Pipes[i]] < Len(r.keys[Pipes[i]])}

\* The key of the current row of the i-th input stream.
CurrentKey(r, i) == r.keys[Pipes[i]][r.row[Pipes[i]] + 1]

\* The input stream the merge takes its next row from: the one with the
\* smallest current key (sort_description.emplace_back(sort_columns[i], 1, 1)),
\* and among equal keys the one with the smallest stream number.
NextStream(r) ==
    CHOOSE i \in StreamsWithRows(r) :
        \A j \in StreamsWithRows(r) :
            \/ CurrentKey(r, i) < CurrentKey(r, j)
            \/ CurrentKey(r, i) = CurrentKey(r, j) /\ i <= j

\* The merged transform takes one row; in a mode other than Ordinary it may
\* leave the row out of its output (skip).
SortedMergeRow(skip) ==
    /\ remap.pc = "sorting"
    /\ StreamsWithRows(remap) # {}
    /\ skip => remap.mode # "Ordinary"
    /\ LET i == NextStream(remap)
           taken == [key |-> CurrentKey(remap, i), part |-> Pipes[i],
                     row |-> remap.row[Pipes[i]]]
       IN remap' = [remap EXCEPT
              !.row[Pipes[i]] = @ + 1,
              !.consumed = Append(@, taken),
              !.emitted = IF skip THEN @ ELSE Append(@, taken),
              !.rows_sources = IF WritesRowsSources(remap.mode)
                               THEN Append(@, [source_num |-> i - 1, skip |-> skip])
                               ELSE @]
    /\ UNCHANGED <<input, blockers, global_ctx, ctx, stages_iterator, subtasks_iterator,
                   pc, outcome, source_parts, hist>>

\* The merged transform has no row left.
SortedMergeEnd ==
    /\ remap.pc = "sorting"
    /\ StreamsWithRows(remap) = {}
    /\ remap' = [remap EXCEPT !.pc = "sorted"]
    /\ UNCHANGED <<input, blockers, global_ctx, ctx, stages_iterator, subtasks_iterator,
                   pc, outcome, source_parts, hist>>

NextSorted ==
    \/ \E skip \in BOOLEAN : SortedMergeRow(skip)
    \/ SortedMergeEnd

SpecSorted == InitSorted /\ [][NextSorted]_vars

\* --------------------------------------------------- properties of SpecSorted
\* The records of the rows sources file that are not skipped.
NotSkipped(stream) == SelectSeq(stream, LAMBDA rec : ~rec.skip)

\* C26: the rows the sorted merge emits are in non-decreasing order of the
\* sort key, rows of equal key are in ascending order of the number of their
\* source part, rows of one part keep their order, and the records of the
\* rows sources file name the parts of the rows in the order the merge took
\* them, so that the records without skip flag name the parts of the emitted
\* rows in emission order.
C26_SortedEmission ==
    remap.pc \in {"sorting", "sorted"} =>
        /\ \A a, b \in DOMAIN remap.emitted :
              a < b =>
                \/ remap.emitted[a].key < remap.emitted[b].key
                \/ /\ remap.emitted[a].key = remap.emitted[b].key
                   /\ \/ remap.emitted[a].part < remap.emitted[b].part
                      \/ /\ remap.emitted[a].part = remap.emitted[b].part
                         /\ remap.emitted[a].row < remap.emitted[b].row
        /\ WritesRowsSources(remap.mode) =>
              /\ Len(remap.rows_sources) = Len(remap.consumed)
              /\ \A a \in DOMAIN remap.consumed :
                    remap.rows_sources[a].source_num = remap.consumed[a].part - 1
              /\ LET kept == NotSkipped(remap.rows_sources)
                 IN /\ Len(kept) = Len(remap.emitted)
                    /\ \A a \in DOMAIN remap.emitted :
                          kept[a].source_num = remap.emitted[a].part - 1

\* A finished merge that emitted a row of the second part and then a row of
\* the first part with a larger key, and rows of equal key from both parts.
C26_Witness ==
    /\ remap.pc = "sorted"
    /\ WritesRowsSources(remap.mode)
    /\ \E a, b \in DOMAIN remap.emitted :
          /\ a < b
          /\ remap.emitted[a].part = 2 /\ remap.emitted[b].part = 1
    /\ \E a, b \in DOMAIN remap.emitted :
          /\ a < b
          /\ remap.emitted[a].key = remap.emitted[b].key
          /\ remap.emitted[a].part = 1 /\ remap.emitted[b].part = 2

\* ------------------------------------------------- the tasks of the projections
\* SpecProjections runs the merges of parts that have any subset of the
\* table's NumProjections projections, normal and aggregate.
ProjectionInputs ==
    { [MergeInput([i \in 1 .. NumParts |-> MaxPartRows], [i \in 1 .. NumParts |-> "none"],
                  0, {}, FALSE, FALSE, cols, FALSE)
         EXCEPT !.parts = [i \in 1 .. NumParts |->
                              [@[i] EXCEPT !.projection_parts = projs[i]]],
                !.projections = NumProjections,
                !.projection_types = types] :
        projs \in [1 .. NumParts -> SUBSET (1 .. NumProjections)],
        types \in [1 .. NumProjections -> {"Normal", "Aggregate"}],
        cols \in 0 .. MaxGatherCols }

InitProjections ==
    /\ input \in ProjectionInputs
    /\ InitCommon
    /\ source_parts = [i \in 1 .. NumParts |->
                          [index_files |-> [n \in {"vec_idx"} |-> "none"],
                           bitmap_pushed |-> FALSE]]
    /\ remap = InitRemap

SpecProjections == InitProjections /\ [][Next]_vars

\* ---------------------------------------------- properties of SpecProjections
\* C27: after mergeMinMaxIndexAndPrepareProjections a projection of the table
\* has a nested task exactly when every source part has a projection part of
\* its name, and it has one task only; a task's mode is Aggregating for an
\* aggregate projection and Ordinary for any other, its parent part is the new
\* part and its suffix is ".proj".
C27_ProjectionTasks ==
    (stages_iterator = 3 /\ subtasks_iterator[3] > 1) =>
        LET tasks == ctx.tasks_for_projections
        IN /\ \A p \in 1 .. input.projections :
                 (\E j \in DOMAIN tasks : tasks[j].name = p)
                   <=> \A i \in DOMAIN input.parts : p \in input.parts[i].projection_parts
           /\ \A j, k \in DOMAIN tasks : tasks[j].name = tasks[k].name => j = k
           /\ \A j \in DOMAIN tasks :
                 /\ tasks[j].name \in 1 .. input.projections
                 /\ tasks[j].mode = IF input.projection_types[tasks[j].name] = "Aggregate"
                                    THEN "Aggregating" ELSE "Ordinary"
                 /\ tasks[j].parent_part = "new_data_part"
                 /\ tasks[j].suffix = ".proj"

\* An aggregate projection all parts have is merged, a projection one part
\* lacks is not.
C27_Witness ==
    /\ stages_iterator = 3 /\ subtasks_iterator[3] > 1
    /\ Len(ctx.tasks_for_projections) = 1
    /\ ctx.tasks_for_projections[1].mode = "Aggregating"
    /\ \E p \in 1 .. input.projections :
          /\ \E i \in DOMAIN input.parts : p \in input.parts[i].projection_parts
          /\ \E i \in DOMAIN input.parts : p \notin input.parts[i].projection_parts

\* One execute() step of a nested task: from one state to the next.
OneNestedStep(before, after) ==
    <<before.state, after.state>> \in
        {<<"prepare", "execute">>, <<"execute", "finalize">>, <<"finalize", "done">>}

\* C28: the nested tasks of the projections run one after the other.  The
\* tasks before projections_iterator have returned false and resolved their
\* promise, the tasks after it have not been stepped; a step changes at most
\* one task, the one at projections_iterator, by one execute() step, and
\* projections_iterator moves on only past a task that has returned false;
\* when finalizeProjectionsAndWholeMerge is the next substep, and ever after,
\* every task has resolved its promise.
C28_SequentialProjections ==
    /\ [](ctx.kind = "Projections" =>
            LET tasks == ctx.tasks_for_projections
            IN /\ \A j \in DOMAIN tasks :
                     /\ j < ctx.projections_iterator
                          => tasks[j].state = "done" /\ tasks[j].promise
                     /\ j > ctx.projections_iterator
                          => tasks[j].state = "prepare" /\ ~tasks[j].promise
               /\ subtasks_iterator[3] >= 3 => \A j \in DOMAIN tasks : tasks[j].promise)
    /\ [][ ( /\ ctx.kind = "Projections" /\ ctx'.kind = "Projections"
              /\ subtasks_iterator[3] >= 2 )
            => LET before == ctx.tasks_for_projections
                   after == ctx'.tasks_for_projections
                   changed == {j \in DOMAIN before : after[j] # before[j]}
               IN /\ DOMAIN after = DOMAIN before
                  /\ Cardinality(changed) <= 1
                  /\ \A j \in changed :
                        /\ j = ctx.projections_iterator
                        /\ CurrentSubtask = "executeProjections"
                        /\ OneNestedStep(before[j], after[j])
                  /\ \/ ctx'.projections_iterator = ctx.projections_iterator
                     \/ /\ ctx'.projections_iterator = ctx.projections_iterator + 1
                        /\ after[ctx.projections_iterator].state = "done"
                        /\ after[ctx.projections_iterator].promise ]_vars

\* A merge of two projections has ended: both tasks have run to their end and
\* their parts are projection parts of the new part.
C28_Witness ==
    /\ outcome.ret = "false"
    /\ Len(ctx.tasks_for_projections) = 2
    /\ \A j \in DOMAIN ctx.tasks_for_projections :
          ctx.tasks_for_projections[j].state = "done"
    /\ global_ctx.new_data_part.projection_parts = {1, 2}
    /\ global_ctx.promise = "part"

\* -------------------------------------------------- the delayed column writers
\* SpecGather runs vertical merges of up to NumGatherCols gathering columns,
\* on storages with and without parallel writes, with
\* max_insert_delayed_streams_for_parallel_write set from 0 to
\* MaxDelayedStreams.
GatherInputs ==
    { [MergeInput([i \in 1 .. NumParts |-> MaxPartRows], [i \in 1 .. NumParts |-> "none"],
                  0, {}, FALSE, FALSE, cols, FALSE)
         EXCEPT !.settings.support_parallel_write = support,
                !.settings.max_insert_delayed_streams_for_parallel_write = max] :
        cols \in 0 .. NumGatherCols,
        support \in BOOLEAN,
        max \in 0 .. MaxDelayedStreams }

InitGather ==
    /\ input \in GatherInputs
    /\ InitCommon
    /\ source_parts = [i \in 1 .. NumParts |->
                          [index_files |-> [n \in {"vec_idx"} |-> "none"],
                           bitmap_pushed |-> FALSE]]
    /\ remap = InitRemap

SpecGather == InitGather /\ [][Next]_vars

\* ---------------------------------------------------- properties of SpecGather
\* C29: in the vertical stage the queue of delayed column writers never holds
\* more than max_delayed_streams writers, which is 0 on a storage without
\* parallel writes; the writers are finished in the order they were queued,
\* so the finished writers followed by the queued ones are the columns
\* 1, 2, ... in order; and once the stage has returned false every gathered
\* column's writer has been finished exactly once.
C29_DelayedStreams ==
    /\ (ctx.kind = "Vertical" /\ subtasks_iterator[2] \in 2 .. 3) =>
          /\ ~input.settings.support_parallel_write => ctx.max_delayed_streams = 0
          /\ Len(ctx.delayed_streams) <= ctx.max_delayed_streams
          /\ LET all == global_ctx.finished_streams \o ctx.delayed_streams
             IN \A j \in DOMAIN all : all[j] = j
          /\ subtasks_iterator[2] = 3 =>
                Len(global_ctx.finished_streams) + Len(ctx.delayed_streams)
                    = global_ctx.gathering_column_names_size
    /\ (stages_iterator >= 3 /\ global_ctx.chosen_merge_algorithm = "Vertical") =>
          global_ctx.finished_streams
              = [j \in 1 .. global_ctx.gathering_column_names_size |-> j]

\* A merge of NumGatherCols columns with one delayed writer allowed has left
\* the vertical stage: a writer was finished while a later one was queued.
C29_Witness ==
    /\ stages_iterator >= 3
    /\ global_ctx.chosen_merge_algorithm = "Vertical"
    /\ input.settings.support_parallel_write
    /\ input.settings.max_insert_delayed_streams_for_parallel_write = 1
    /\ Len(global_ctx.finished_streams) = NumGatherCols

\* C30: an execute() call that does not throw runs one substep of its stage
\* once: the stage's substep iterator stays (the substep asked to be called
\* again) or moves on by one, and the other stages' iterators stay.  The
\* stage returns true exactly when the substep asked to be called again or a
\* later substep of the stage is still to come, and false otherwise.  The
\* call pulls at most one block from the merging executor or the column
\* executor, and rows are written only by a call that pulled a block.
C30_OneSubstepPerCall ==
    [][ ( /\ blockers' = blockers /\ Running /\ stages_iterator \in 1 .. 3
          /\ pc' = "idle" )
        => LET s == stages_iterator
           IN /\ hist'.pulled \in {0, 1}
              /\ hist'.pulled = 1 =>
                    CurrentSubtask \in {"executeImpl", "executeVerticalMergeForAllColumns"}
              /\ global_ctx'.rows_written > global_ctx.rows_written => hist'.pulled = 1
              /\ ( /\ ctx.kind = "Vertical" /\ ctx'.kind = "Vertical"
                   /\ ctx'.column_elems_written > ctx.column_elems_written )
                     => hist'.pulled = 1
              /\ outcome'.ret # "throw" =>
                    /\ \A t \in 1 .. 3 : t # s => subtasks_iterator'[t] = subtasks_iterator[t]
                    /\ subtasks_iterator'[s] \in {subtasks_iterator[s], subtasks_iterator[s] + 1}
                    /\ hist'.stage_returned[s] \in {"true", "false"}
                    /\ hist'.stage_returned[s] = "true"
                          <=> \/ subtasks_iterator'[s] = subtasks_iterator[s]
                              \/ subtasks_iterator'[s] \in 1 .. 3
                    /\ hist'.stage_returned[s] = "false"
                          <=> /\ subtasks_iterator[s] = 3
                              /\ subtasks_iterator'[s] = 4
                              /\ stages_iterator' = s + 1 ]_vars

\* The vertical stage has returned true for a column pull and the horizontal
\* stage false after its last substep.
C30_Witness ==
    /\ stages_iterator = 2
    /\ hist.stage_returned[1] = "false"
    /\ hist.stage_returned[2] = "true"
    /\ hist.pulled = 1
    /\ ctx.column_elems_written > 0

\* C34: in a Vertical merge the gathering columns are processed one at a time
\* in list order, column_num_for_vertical_merge + 1 being the column at work:
\* a call in NEED_PREPARE opens the column's readers and writer, rewinds the
\* reader of the rows sources file to 0 and goes to NEED_EXECUTE; a call in
\* NEED_EXECUTE stays or goes to NEED_FINISH and neither reopens nor rewinds;
\* a call in NEED_FINISH that does not throw goes to NEED_PREPARE and is the
\* only one that increments the counter.  The loop ends exactly when the
\* counter has reached the number of gathering columns; for a Horizontal
\* merge the substep changes nothing and ends at once.
C34_GatheringLoop ==
    /\ []( ( /\ Running /\ stages_iterator = 2 /\ subtasks_iterator[2] \in 2 .. 3
             /\ global_ctx.chosen_merge_algorithm = "Vertical" )
           => /\ ctx.column_num_for_vertical_merge <= global_ctx.gathering_column_names_size
              /\ global_ctx.checksums_gathered_columns
                    = 1 .. ctx.column_num_for_vertical_merge
              /\ ctx.vertical_merge_one_column_state # "NEED_PREPARE"
                    => ctx.column_to = ctx.column_num_for_vertical_merge + 1
              /\ subtasks_iterator[2] = 3
                    => ctx.column_num_for_vertical_merge
                          = global_ctx.gathering_column_names_size )
    /\ [][ ( /\ Running /\ pc = "idle" /\ blockers' = blockers
             /\ CurrentSubtask = "executeVerticalMergeForAllColumns" )
           => LET st == ctx.vertical_merge_one_column_state
                  num == ctx.column_num_for_vertical_merge
                  over == \/ global_ctx.chosen_merge_algorithm # "Vertical"
                          \/ num >= global_ctx.gathering_column_names_size
              IN /\ outcome'.ret # "throw"
                    => (subtasks_iterator'[2] = subtasks_iterator[2] + 1 <=> over)
                 /\ over => (ctx' = ctx /\ global_ctx' = global_ctx)
                 /\ ctx'.column_num_for_vertical_merge # num
                    => (~over /\ st = "NEED_FINISH"
                        /\ ctx'.column_num_for_vertical_merge = num + 1)
                 /\ ctx'.rows_sources_read_pos < ctx.rows_sources_read_pos
                    => (~over /\ st = "NEED_PREPARE")
                 /\ (~over /\ st = "NEED_PREPARE")
                    => /\ ctx'.vertical_merge_one_column_state = "NEED_EXECUTE"
                       /\ ctx'.rows_sources_read_pos = 0
                       /\ ctx'.executor = global_ctx.rows_emitted
                       /\ ctx'.column_elems_written = 0
                       /\ ctx'.column_to = num + 1
                 /\ (~over /\ st = "NEED_EXECUTE")
                    => /\ ctx'.vertical_merge_one_column_state
                             \in {"NEED_EXECUTE", "NEED_FINISH"}
                       /\ ctx'.executor <= ctx.executor
                       /\ ctx'.column_to = ctx.column_to
                 /\ (~over /\ st = "NEED_FINISH" /\ outcome'.ret # "throw")
                    => /\ ctx'.vertical_merge_one_column_state = "NEED_PREPARE"
                       /\ ctx'.column_num_for_vertical_merge = num + 1
                       /\ ctx'.rows_sources_read_pos = ctx.rows_sources_read_pos ]_vars

\* The loop over NumGatherCols columns has ended: the last column's rows were
\* read from a reader that had been rewound after the column before.
C34_Witness ==
    /\ Running /\ stages_iterator = 2 /\ subtasks_iterator[2] = 3
    /\ global_ctx.chosen_merge_algorithm = "Vertical"
    /\ ctx.column_num_for_vertical_merge = NumGatherCols
    /\ ctx.vertical_merge_one_column_state = "NEED_PREPARE"
    /\ ctx.rows_sources_read_pos = global_ctx.rows_written
    /\ global_ctx.rows_written > 0

\* ----------------------------------------------------- properties of Spec (5)
\* C31: a prepare() that finds the directory of the new part throws
\* DIRECTORY_ALREADY_EXISTS with no transaction begun, no temporary directory
\* lock taken, no rows sources file and no writer or executor created; when
\* the merge is cancelled as well, the cancellation is seen first and the
\* error is ABORTED.
C31_DirectoryExists ==
    [][ ( /\ Running /\ pc = "idle" /\ CurrentSubtask = "prepare"
          /\ blockers' = blockers
          /\ input.dir_exists )
        => /\ outcome'.ret = "throw"
           /\ outcome'.error =
                 IF MergesCancelled \/ (input.is_ttl_merge /\ blockers.ttl_merges_blocker)
                 THEN "ABORTED" ELSE "DIRECTORY_ALREADY_EXISTS"
           /\ global_ctx'.txn = "none"
           /\ ~global_ctx'.temporary_directory_lock
           /\ ~global_ctx'.rows_sources_tmp.exists
           /\ ~ctx'.rows_sources_file
           /\ ~ctx'.rows_sources_write_buf
           /\ ~global_ctx'.to
           /\ ~global_ctx'.has_executor ]_vars

\* The directory was found by a merge that is not cancelled.
C31_Witness ==
    /\ outcome = [ret |-> "throw", error |-> "DIRECTORY_ALREADY_EXISTS"]
    /\ input.dir_exists
    /\ global_ctx.new_data_part.built
    /\ global_ctx.txn = "none"

\* What the next step of the thread inside MergeTask::execute() can do: the
\* results of the substep it is about to call or is in the middle of, without
\* the history.
PendingResults ==
    LET results ==
            IF ~Running \/ stages_iterator \notin 1 .. 3 THEN {}
            ELSE IF pc = "recheck" THEN executeImplRecheck
            ELSE IF CurrentSubtask = "prepare" THEN prepare
            ELSE IF CurrentSubtask = "executeImpl" THEN executeImplPull
            ELSE IF CurrentSubtask = "generateRowIdsMap" THEN generateRowIdsMap
            ELSE IF CurrentSubtask = "prepareVerticalMergeForAllColumns"
            THEN prepareVerticalMergeForAllColumns
            ELSE IF CurrentSubtask = "executeVerticalMergeForAllColumns"
            THEN executeVerticalMergeForAllColumns
            ELSE IF CurrentSubtask = "finalizeVerticalMergeForAllColumns"
            THEN finalizeVerticalMergeForAllColumns
            ELSE IF CurrentSubtask = "mergeMinMaxIndexAndPrepareProjections"
            THEN mergeMinMaxIndexAndPrepareProjections
            ELSE IF CurrentSubtask = "executeProjections" THEN executeProjections
            ELSE finalizeProjectionsAndWholeMerge
    IN { [error |-> r.error, again |-> r.again, pc |-> r.pc, ctx |-> r.ctx,
          global_ctx |-> r.global_ctx, source_parts |-> r.source_parts] : r \in results }

\* C36: the TTL merges blocker touches only merges that evict by TTL.  A
\* prepare() of a merge that is not of a TTL merge type, run while the TTL
\* merges blocker is cancelled and the sources hold expired values, does not
\* throw for the blocker, leaves need_remove_expired_values cleared and hands
\* every row to the writer (no TTL transform); and once prepare() has left
\* need_remove_expired_values cleared, cancelling or releasing the TTL merges
\* blocker changes nothing of what the following steps of the merge can do,
\* and an ABORTED exception is thrown only with the merges blocker cancelled
\* or the merge list element cancelled.
C36_TTLBlockerOnlyForEviction ==
    /\ [][ ( /\ Running /\ pc = "idle" /\ CurrentSubtask = "prepare"
             /\ blockers' = blockers
             /\ ~input.is_ttl_merge /\ blockers.ttl_merges_blocker
             /\ NeedRemoveExpiredValues(input, FALSE)
             /\ ~MergesCancelled /\ ~input.dir_exists )
           => /\ outcome'.ret # "throw"
              /\ ~ctx'.need_remove_expired_values
              /\ ~ctx'.is_cancelled_need_remove
              /\ ~input.deduplicate
                    => global_ctx'.merging_executor
                          = TotalRows(input) - global_ctx'.input_rows_filtered ]_vars
    /\ [][ ( /\ Running /\ (stages_iterator > 1 \/ subtasks_iterator[1] > 1) /\ ~ctx.need_remove_expired_values
             /\ blockers'.ttl_merges_blocker # blockers.ttl_merges_blocker )
           => PendingResults' = PendingResults ]_vars
    /\ [][ ( /\ Running /\ (stages_iterator > 1 \/ subtasks_iterator[1] > 1) /\ ~ctx.need_remove_expired_values
             /\ outcome'.ret = "throw" /\ outcome'.error = "ABORTED" )
           => MergesCancelled ]_vars

\* prepare() met expired values with the TTL merges blocker cancelled (the
\* merge is Vertical, which a merge that evicts never is); the blocker was
\* released afterwards and the merge resolved its promise with all rows of
\* the sources written.
C36_Witness ==
    /\ outcome.ret = "false" /\ global_ctx.promise = "part"
    /\ ~input.is_ttl_merge /\ ~input.deduplicate
    /\ NeedRemoveExpiredValues(input, FALSE)
    /\ ~blockers.ttl_merges_blocker
    /\ TotalRows(input) > 0
    /\ global_ctx.rows_written = TotalRows(input)
    /\ global_ctx.chosen_merge_algorithm = "Vertical"

\* C38: whenever prepare() or the finalization reads
\* future_part->parts[first_part_with_data] (prepare() does when the merge is
\* eligible for decoupling with max_part_with_index = 1, the finalization
\* when only_one_vpart_merged is set), first_part_with_data is the index of a
\* non-empty source part that has the vector index built, never -1.
C38_FirstPartWithDataValid ==
    ( /\ (stages_iterator > 1 \/ subtasks_iterator[1] > 1)
      /\ \/ (DecoupleCheck(input).can_be_decouple
                /\ DecoupleCheck(input).max_part_with_index = 1)
         \/ global_ctx.only_one_vpart_merged )
    => /\ global_ctx.first_part_with_data \in PartIds
       /\ input.parts[global_ctx.first_part_with_data + 1].rows_count # 0
       /\ \E n \in {"vec_idx"} :
             input.parts[global_ctx.first_part_with_data + 1].vector_index[n] = "BUILT"

\* C39: the temporary rows sources file that prepare() marked as kept is no
\* longer on the temporary disk when the merge has resolved its promise.
C39_TemporaryFileRemoved ==
    (global_ctx.promise = "part" /\ global_ctx.rows_sources_tmp.keep)
        => ~global_ctx.rows_sources_tmp.exists

\* ------------------------------------------------------ the space reservation
\* Float64 arithmetic on values between 0 and 1.  A value is 1.0 (one) or the
\* binary fraction 0.frac; every operation rounds to the nearest value with
\* Mantissa significant bits, ties to even.
AllOnes(bits) == \A i \in DOMAIN bits : bits[i] = 1
AnyOne(bits) == \E i \in DOMAIN bits : bits[i] = 1

\* The zeros before the first 1 of bits.
LeadingZeros(bits) ==
    IF ~AnyOne(bits) THEN Len(bits)
    ELSE (CHOOSE i \in DOMAIN bits :
              bits[i] = 1 /\ \A j \in DOMAIN bits : j < i => bits[j] = 0) - 1

\* bits + 1 in the last place, for bits that are not all ones.
Increment(bits) ==
    LET p == CHOOSE i \in DOMAIN bits :
                 bits[i] = 0 /\ \A j \in DOMAIN bits : j > i => bits[j] = 1
    IN [i \in DOMAIN bits |-> IF i < p THEN bits[i] ELSE IF i = p THEN 1 ELSE 0]

\* The Float64 nearest to the exact binary fraction 0.bits.
RoundFraction(bits) ==
    LET z == LeadingZeros(bits)
        n == z + Mantissa
    IN  IF Len(bits) <= n THEN [one |-> FALSE, frac |-> bits]
        ELSE LET kept == SubSeq(bits, 1, n)
                 up == /\ bits[n + 1] = 1
                       /\ AnyOne(SubSeq(bits, n + 2, Len(bits))) \/ kept[n] = 1
             IN  IF ~up THEN [one |-> FALSE, frac |-> kept]
                 ELSE IF AllOnes(kept) THEN [one |-> TRUE, frac |-> <<>>]
                 ELSE [one |-> FALSE, frac |-> Increment(kept)]

\* The first n bits of dividend / divisor, and one more bit that says whether
\* a remainder is left: the remainder before bit i is dividend * 2^(i-1)
\* modulo divisor, the power taken by squaring.
DivBits(dividend, divisor, n) ==
    LET RECURSIVE Pow2Mod(_)
        Pow2Mod(k) ==
            IF k = 0 THEN 1 % divisor
            ELSE LET h == Pow2Mod(k \div 2)
                 IN (h * h * (IF k % 2 = 1 THEN 2 ELSE 1)) % divisor
    IN
    [i \in 1 .. (n + 1) |->
        LET rem == (dividend * Pow2Mod(i - 1)) % divisor
        IN IF i <= n THEN (IF 2 * rem >= divisor THEN 1 ELSE 0)
           ELSE (IF rem # 0 THEN 1 ELSE 0)]

\* The bits lo .. hi of a binary fraction as an integer; a bit after the last
\* one is 0.  By halves.
RECURSIVE BitsValue(_, _, _)
BitsValue(bits, lo, hi) ==
    IF lo > hi THEN 0
    ELSE IF lo = hi THEN (IF lo \in DOMAIN bits THEN bits[lo] ELSE 0)
    ELSE LET mid == (lo + hi) \div 2
         IN BitsValue(bits, lo, mid) * 2^(hi - mid) + BitsValue(bits, mid + 1, hi)

\* The exact product of a binary fraction and n, LimbBits bits at a time from
\* limb k to the last one: the limbs of the product and the carry out of them.
RECURSIVE MulLimbs(_, _, _, _)
MulLimbs(bits, n, k, count) ==
    IF k > count THEN [int |-> 0, limbs |-> <<>>]
    ELSE LET right == MulLimbs(bits, n, k + 1, count)
             v == BitsValue(bits, (k - 1) * LimbBits + 1, k * LimbBits) * n + right.int
         IN [int |-> v \div 2^LimbBits, limbs |-> <<v % 2^LimbBits>> \o right.limbs]

\* The exact product of the binary fraction 0.bits and n: its integer part and
\* the bits of its fraction.
MulBits(bits, n) ==
    LET count == (Len(bits) + LimbBits - 1) \div LimbBits
        product == MulLimbs(bits, n, 1, count)
    IN [int  |-> product.int,
        frac |-> [i \in 1 .. Len(bits) |->
                    (product.limbs[(i - 1) \div LimbBits + 1]
                        \div 2^(LimbBits - 1 - ((i - 1) % LimbBits))) % 2]]

\* static_cast<size_t>(x * initial_reservation) for the Float64 x
TimesTruncated(x, initial_reservation) ==
    IF x.one THEN initial_reservation
    ELSE LET RECURSIVE BitLength(_)
             BitLength(n) == IF n = 0 THEN 0 ELSE 1 + BitLength(n \div 2)
             product == MulBits(x.frac, initial_reservation)
             keep == Mantissa - BitLength(product.int)
         IN  IF product.int = 0
             THEN (IF RoundFraction(product.frac).one THEN 1 ELSE 0)
             ELSE IF Len(product.frac) <= keep THEN product.int
             ELSE LET up == /\ product.frac[keep + 1] = 1
                            /\ \/ AnyOne(SubSeq(product.frac, keep + 2, Len(product.frac)))
                               \/ product.frac[keep] = 1
                  IN IF up /\ AllOnes(SubSeq(product.frac, 1, keep))
                     THEN product.int + 1 ELSE product.int

\* A merge that never gives reserved space back.
ReservationKept(rows_written, sum_input_rows_upper_bound, initial_reservation) ==
    initial_reservation

\* space_reservation->update(static_cast<size_t>((1. - progress) * ctx->initial_reservation))
ReservationUpdate(rows_written, sum_input_rows_upper_bound, initial_reservation) ==
    LET \* std::min(1., 1. * rows_written / sum_input_rows_upper_bound)
        progress ==
            IF rows_written >= sum_input_rows_upper_bound THEN [one |-> TRUE, frac |-> <<>>]
            ELSE RoundFraction(DivBits(rows_written, sum_input_rows_upper_bound,
                                       Mantissa + 1 + sum_input_rows_upper_bound))
        \* 1. - progress
        rest ==
            IF progress.one THEN [one |-> FALSE, frac |-> <<>>]
            ELSE IF ~AnyOne(progress.frac) THEN [one |-> TRUE, frac |-> <<>>]
            ELSE RoundFraction(Increment([i \in DOMAIN progress.frac |-> 1 - progress.frac[i]]))
    IN TimesTruncated(rest, initial_reservation)

\* SpecReservation writes the blocks of a Horizontal merge that holds a space
\* reservation.
InitReservation ==
    /\ input = RemapInput
    /\ InitCommon
    /\ source_parts = <<>>
    /\ remap \in { [ pc                         |-> "writing",
                      initial_reservation        |-> initial,
                      sum_input_rows_upper_bound |-> upper,
                      rows_written               |-> 0,
                      space_reservation          |-> initial,
                      blocks                     |-> 0 ] :
                    initial \in 0 .. MaxReservation, upper \in 0 .. MaxUpperBound }

\* executeImpl pulls a block of n rows and writes it.
WriteBlock(n) ==
    /\ remap.pc = "writing"
    /\ remap.rows_written + n <= remap.sum_input_rows_upper_bound
    /\ remap' = [remap EXCEPT
          !.rows_written = @ + n,
          !.blocks = 1,
          !.space_reservation =
              IF remap.sum_input_rows_upper_bound # 0
              THEN ReservationUpdate(remap.rows_written + n,
                                     remap.sum_input_rows_upper_bound,
                                     remap.initial_reservation)
              ELSE @]
    /\ UNCHANGED <<input, blockers, global_ctx, ctx, stages_iterator, subtasks_iterator,
                   pc, outcome, source_parts, hist>>

SpecReservation ==
    InitReservation /\ [][\E n \in 1 .. MaxUpperBound : WriteBlock(n)]_vars

MaxSingleRows == 2

SingleSourceInputs ==
    { [MergeInput([i \in 1 .. NumParts |-> rows], [i \in 1 .. NumParts |-> vi],
                  ttl, {}, dedup, FALSE, 0, FALSE)
          EXCEPT !.parts = <<Part(rows, [n \in {"vec_idx"} |-> vi], lwd, ttl, TRUE, {})>>,
                 !.mode = mode] :
        rows \in 0 .. MaxSingleRows, vi \in {"none", "PENDING", "BUILT"},
        lwd \in BOOLEAN, ttl \in {0, 1}, dedup \in BOOLEAN,
        mode \in {"Ordinary", "Replacing", "Collapsing"} }

\* The _part_offset values of all rows of a part with n rows.
AllOffsets(n) == [k \in 1 .. n |-> k - 1]

InitSingle ==
    /\ input \in SingleSourceInputs
    /\ InitCommon
    /\ source_parts = <<>>
    /\ remap \in { [ pc                         |-> "merging",
                      only_one_vpart_merged      |->
                          OnlyOneVPartMerged(DecoupleCheck(input),
                                             input.parts[1].lightweight_delete),
                      need_remove_expired_values |-> NeedRemoveExpiredValues(input, FALSE),
                      part_offsets               |-> offsets,
                      source_row                 |-> 0,
                      new_part                   |-> <<>>,
                      index_files                |-> "source",
                      new_rows_count             |-> 0 ] :
                    offsets \in IF input.parts[1].lightweight_delete
                                THEN IncreasingSeqs(input.parts[1].rows_count)
                                ELSE {AllOffsets(input.parts[1].rows_count)} }

\* The merged pipeline consumes the next row of the source: skip says the
\* merging transform of the mode collapsed it, dropped says DISTINCT or the TTL
\* transform removed it; any other row is written to the new part.
SingleMergeRow(skip, dropped) ==
    /\ remap.pc = "merging"
    /\ remap.source_row < Len(remap.part_offsets)
    /\ skip => input.mode # "Ordinary"
    /\ dropped => (~skip /\ (input.deduplicate \/ remap.need_remove_expired_values))
    /\ remap' = [remap EXCEPT
          !.source_row = @ + 1,
          !.new_part = IF skip \/ dropped THEN @
                       ELSE Append(@, remap.part_offsets[remap.source_row + 1])]
    /\ UNCHANGED <<input, blockers, global_ctx, ctx, stages_iterator, subtasks_iterator,
                   pc, outcome, source_parts, hist>>

\* finalizeProjectionsAndWholeMerge: finalizePart counts the rows of the new
\* part; a new part without rows switches only_one_vpart_merged off; with
\* only_one_vpart_merged the index files of the source are moved to the new
\* part.
SingleFinalize ==
    /\ remap.pc = "merging"
    /\ remap.source_row = Len(remap.part_offsets)
    /\ remap' = [remap EXCEPT
          !.pc = "finalized",
          !.new_rows_count = Len(remap.new_part),
          !.only_one_vpart_merged = @ /\ Len(remap.new_part) # 0,
          !.index_files = IF remap.only_one_vpart_merged /\ Len(remap.new_part) # 0
                          THEN "moved" ELSE @]
    /\ UNCHANGED <<input, blockers, global_ctx, ctx, stages_iterator, subtasks_iterator,
                   pc, outcome, source_parts, hist>>

SpecSingle ==
    /\ InitSingle
    /\ [][ \/ \E skip \in BOOLEAN, dropped \in BOOLEAN : SingleMergeRow(skip, dropped)
           \/ SingleFinalize ]_vars

InitCollapse ==
    /\ input \in { [MergeInput([i \in 1 .. NumParts |-> MaxPartRows],
                               [i \in 1 .. NumParts |-> "BUILT"],
                               0, {}, FALSE, FALSE, cols, FALSE)
                      EXCEPT !.mode = mode] :
                     mode \in {"Replacing", "Collapsing"},
                     cols \in 0 .. MaxGatherCols }
    /\ InitCommon
    /\ source_parts = [i \in 1 .. NumParts |->
                          [index_files |-> [n \in {"vec_idx"} |-> "source"],
                           bitmap_pushed |-> FALSE]]
    /\ remap = InitRemap

SpecCollapse == InitCollapse /\ [][Next]_vars

\* ------------------------------------------------ properties of SpecCollapse
\* C37: updateBitMap has pushed delete-row ids into a source part only in runs
\* that resolve the promise with the new part: in a run that has ended with
\* an exception no source part has had its delete bitmap modified.
C37_BitmapOnlyOnSuccess ==
    outcome.ret = "throw" =>
        \A i \in 1 .. NumParts : ~source_parts[i].bitmap_pushed

\* ------------------------------------------- merging and gathering columns
\* SpecColumns applies the column split of prepare() to tables of up to
\* MaxColumns physical columns.  A column is its name; "" is the name of a
\* sign, version or is_deleted column the merging parameters do not set.
MaxColumns == 3

\* metadata_snapshot->getColumns().getAllPhysical() of a table with n columns
StorageColumns(n) == [i \in 1 .. n |-> [name |-> <<"a", "b", "c">>[i], type |-> "T"]]

NamesOf(columns) == [i \in 1 .. Len(columns) |-> columns[i].name]

\* The tables: the sorting key and the secondary indices read columns of the
\* table, a column of the sorting key has no TTL, and a merge that evicts
\* rows by TTL is Horizontal.  The Collapsing modes have a sign column,
\* VersionedCollapsing also a version column of the sorting key, Replacing may
\* have a version column and with it an is_deleted column.
TablesOf(n) ==
    LET names == SeqRange(NamesOf(StorageColumns(n)))
        MergingParamsOf(key) ==
            { [mode |-> "Ordinary", sign_column |-> "", version_column |-> "",
               is_deleted_column |-> ""] }
            \cup { [mode |-> "Collapsing", sign_column |-> sc, version_column |-> "",
                    is_deleted_column |-> ""] : sc \in names }
            \cup { [mode |-> "Replacing", sign_column |-> "", version_column |-> v,
                    is_deleted_column |-> ""] : v \in names \cup {""} }
            \cup UNION { { [mode |-> "Replacing", sign_column |-> "", version_column |-> v,
                            is_deleted_column |-> d] : d \in names \ {v} } : v \in names }
            \cup UNION { { [mode |-> "VersionedCollapsing", sign_column |-> sc,
                            version_column |-> v, is_deleted_column |-> ""] :
                                sc \in names \ {v} } : v \in key }
    IN UNION { { [ storage_columns   |-> StorageColumns(n),
                   sort_key          |-> key,
                   index_columns     |-> idx,
                   mode              |-> p.mode,
                   sign_column       |-> p.sign_column,
                   version_column    |-> p.version_column,
                   is_deleted_column |-> p.is_deleted_column,
                   algorithm         |-> am.algorithm,
                   need_remove_expired_values |-> am.need_remove,
                   columns_ttl_finished |-> finished ] :
                   idx \in SUBSET names,
                   finished \in SUBSET (names \ key),
                   p \in MergingParamsOf(key),
                   am \in { [algorithm |-> "Horizontal", need_remove |-> TRUE],
                            [algorithm |-> "Horizontal", need_remove |-> FALSE],
                            [algorithm |-> "Vertical", need_remove |-> FALSE] } }
               : key \in SUBSET names }

extractMergingAndGatheringColumns(t) ==
    LET forced == IF t.mode = "Collapsing" THEN {t.sign_column}
                  ELSE IF t.mode = "Replacing" THEN {t.is_deleted_column, t.version_column}
                  ELSE IF t.mode = "VersionedCollapsing" THEN {t.sign_column}
                  ELSE {}
        with_forced == t.sort_key \cup t.index_columns \cup forced
        key_columns == IF with_forced = {} THEN {t.storage_columns[1].name}
                       ELSE with_forced
        merging == SelectSeq(t.storage_columns, LAMBDA c : c.name \in key_columns)
        gathering == SelectSeq(t.storage_columns, LAMBDA c : c.name \notin key_columns)
    IN [ merging_columns |-> merging, merging_column_names |-> NamesOf(merging),
         gathering_columns |-> gathering, gathering_column_names |-> NamesOf(gathering) ]

\* switch (global_ctx->chosen_merge_algorithm)
ColumnsOfAlgorithm(t, split) ==
    IF t.algorithm = "Horizontal"
    THEN [ merging_columns |-> t.storage_columns,
           merging_column_names |-> NamesOf(t.storage_columns),
           gathering_columns |-> <<>>, gathering_column_names |-> <<>> ]
    ELSE split

\* The loop over ttl_infos.columns_ttl: std::erase on the two name lists,
\* then filter() on the two column lists.
SkipExpiredColumnLists(t, split) ==
    IF t.need_remove_expired_values
    THEN [ merging_columns |-> split.merging_columns,
           merging_column_names |-> split.merging_column_names,
           gathering_columns |-> split.gathering_columns,
           gathering_column_names |-> split.gathering_column_names,
           expired_columns |-> {} ]
    ELSE
    LET gathering_names == SelectSeq(split.gathering_column_names,
                                     LAMBDA x : x \notin t.columns_ttl_finished)
        merging_names == SelectSeq(split.merging_column_names,
                                   LAMBDA x : x \notin t.columns_ttl_finished)
        expired == t.columns_ttl_finished # {}
    IN [ merging_column_names |-> merging_names,
         gathering_column_names |-> gathering_names,
         merging_columns |->
            IF expired THEN SelectSeq(split.merging_columns,
                                      LAMBDA c : c.name \in SeqRange(merging_names))
            ELSE split.merging_columns,
         gathering_columns |->
            IF expired THEN SelectSeq(split.gathering_columns,
                                      LAMBDA c : c.name \in SeqRange(gathering_names))
            ELSE split.gathering_columns,
         expired_columns |-> t.columns_ttl_finished ]

InitColumns ==
    /\ input = RemapInput
    /\ InitCommon
    /\ source_parts = <<>>
    /\ remap \in { [pc |-> "table", table |-> t] : t \in UNION { TablesOf(n) : n \in 1 .. MaxColumns } }

\* prepare(), as far as the columns go.
PrepareColumns ==
    /\ remap.pc = "table"
    /\ remap' = [ pc      |-> "prepared",
                  table   |-> remap.table,
                  columns |-> SkipExpiredColumnLists(remap.table,
                                 ColumnsOfAlgorithm(remap.table,
                                    extractMergingAndGatheringColumns(remap.table))) ]
    /\ UNCHANGED <<input, blockers, global_ctx, ctx, stages_iterator, subtasks_iterator,
                   pc, outcome, source_parts, hist>>

SpecColumns == InitColumns /\ [][PrepareColumns]_vars

\* ------------------------------------------------ properties of SpecColumns
\* C40: at the end of prepare the merging and the gathering columns are
\* disjoint, their union is the physical storage columns without the expired
\* columns, and each column list and its name list name the same columns in
\* the same order; a Horizontal merge has no gathering column, and the merging
\* columns of a Vertical merge contain every column of the sorting key, of a
\* secondary index and the sign, version and is_deleted column the mode
\* forces, or the first storage column when there is no such column, each
\* unless it expired.
C40_ColumnSets ==
    remap.pc = "prepared" =>
        LET t == remap.table
            Merging == SeqRange(remap.columns.merging_column_names)
            Gathering == SeqRange(remap.columns.gathering_column_names)
            required == t.sort_key \cup t.index_columns
                        \cup ({t.sign_column, t.version_column, t.is_deleted_column} \ {""})
        IN
        /\ Merging \cap Gathering = {}
        /\ Merging \cup Gathering
              = SeqRange(NamesOf(t.storage_columns)) \ remap.columns.expired_columns
        /\ NamesOf(remap.columns.merging_columns) = remap.columns.merging_column_names
        /\ NamesOf(remap.columns.gathering_columns) = remap.columns.gathering_column_names
        /\ t.algorithm = "Horizontal" => Gathering = {}
        /\ t.algorithm = "Vertical" =>
              IF required = {}
              THEN t.storage_columns[1].name \in Merging \cup remap.columns.expired_columns
              ELSE required \ remap.columns.expired_columns \subseteq Merging

====
